---- MODULE Spec2Model ----
(***************************************************************************)
(* ScreenTranslator: the pipeline orchestrator (src/core/pipeline.py), its *)
(* collaborators as far as the orchestrator drives them, and the           *)
(* application handlers (src/app.py) that call into it.                    *)
(*                                                                         *)
(* Threads: the caller ("main", the Qt GUI thread, which is also the       *)
(* thread the overlay lives in) and the worker threads created by start(). *)
(* A worker executes _loop/_run_cycle from one blocking call to the next   *)
(* (pc); the caller's operations are atomic handlers, except shutdown(),   *)
(* whose join is a separate step.                                          *)
(***************************************************************************)
EXTENDS Integers, Sequences, FiniteSets, TLC

---------------------------------------------------------------------------
(* Bounds of the model. *)
MaxWorkers == 2
MaxQueue == 1
MaxNull == 2
MaxCache == 2
StaticCycles == 5
MaxCycles == StaticCycles + 1
MaxCount == 2
MaxErrors == 2

Workers == 1..MaxWorkers

---------------------------------------------------------------------------
(* Data. *)

\* A frame is abstracted to its size and one grey level (a uniform image).
Frame(h, w, lum) == [h |-> h, w |-> w, lum |-> lum]
NoFrame == Frame(0, 0, 0)
FrameA == Frame(2, 2, 0)
FrameB == Frame(2, 2, 10)
FrameC == Frame(2, 2, 4)

NoRegion == <<>>
Region1 == <<3, 4, 5, 6>>

NoTranslation == <<>>
Block(text) == [text |-> text, translation |-> NoTranslation]

AppSettings(mode, region, mon, src, tgt, thr, cap) == [capture_mode |-> mode, capture_region |-> region, capture_monitor |-> mon, source_language |-> src, target_language |-> tgt, frame_diff_threshold |-> thr, max_cache_size |-> cap]

DefaultThreshold == 5

\* FLORES-200 code -> BCP-47 tag, on the languages of the model.
flores_to_bcp47(code) == CASE code = "eng_Latn" -> "en" [] code = "jpn_Jpan" -> "ja" [] code = "fra_Latn" -> "fr" [] OTHER -> "None"

\* pipeline.initialize: the OCR language of the configured source language.
initial_ocr_lang(src) == IF src = "auto" THEN "en" ELSE IF flores_to_bcp47(src) = "None" THEN "en" ELSE flores_to_bcp47(src)

Abs(x) == IF x < 0 THEN -x ELSE x
Min(a, b) == IF a < b THEN a ELSE b

---------------------------------------------------------------------------
VARIABLES
  running,        \* PipelineThread._running
  thread,         \* PipelineThread._thread: the slot of the latest thread, 0 = None
  pc,             \* per worker slot: where the thread is in _loop/_run_cycle
  loc,            \* per worker slot: the locals of _run_cycle
  settings,       \* PipelineThread.settings (the object it references)
  app_settings,   \* AppController.settings (the object it references)
  shared,         \* whether the two reference one and the same object
  capture,        \* CaptureEngine: _started, _monitor
  prev_frame,     \* FrameDiffer._prev_frame
  threshold,      \* FrameDiffer.threshold
  ocr_lang,       \* OCREngine._current_lang
  loaded,         \* TranslationEngine._loaded
  cache,          \* TranslationCache._cache, least recently used first
  max_size,       \* TranslationCache.max_size
  stats,          \* TranslationCache._hits, _misses (counted up to MaxCount)
  errors,         \* the number of error_occurred emissions
  last_blocks,    \* PipelineThread._last_blocks
  null_frame_count,
  queue,          \* blocks_ready emissions posted to the main thread's event loop
  overlay,        \* OverlayWindow._blocks: what the consumer observed last
  mainPc,         \* "idle", or "join" inside shutdown()
  last,           \* observation: the most recent start/stop/shutdown/clear call and its calls
  log,            \* observation: per worker, the events of its current cycle
  upd,            \* observation: the fields the most recent settings change changed
  fresh,          \* observation: per worker, its cycle began after the last change
  snap,           \* observation: per worker, the language pair set when its cycle began
  overtaken,      \* observation: earlier publications still undelivered at the last delivery
  rec,            \* what is recorded: "log"; "frames" (frames, ocr_at); "upd" (upd, fresh, snap); "stats" (the worker's share of stats); "first" (newborn)
  frames,         \* observation: the frames captured since start()
  ocr_at,         \* observation: the cycles (by number) in which OCR was invoked
  order,          \* observation: the keys of the direct cache calls, least recently used first
  probe,          \* observation: the key of a direct get that hit, and the new keys put since (nothing else was called)
  call,           \* observation: the most recent direct call of a collaborator's function: its arguments and result
  newborn,        \* observation: the workers started that have not yet compared a frame
  backend         \* CaptureEngine: _use_bettercam, _camera (the thread that created it), and each worker thread's _local.mss_instance; followed when rec has "backend"

vars == <<running, thread, pc, loc, settings, app_settings, shared, capture, prev_frame, threshold, ocr_lang, loaded, cache, max_size, last_blocks, null_frame_count, queue, overlay, mainPc, last, log, upd, fresh, snap, overtaken, rec, frames, ocr_at, stats, errors, order, probe, call, newborn, backend>>

workerState == <<pc, loc, log, fresh, snap>>
engines == <<capture, prev_frame, threshold, ocr_lang, loaded, cache, max_size>>
history == <<rec, frames, ocr_at>>
aux == <<stats, errors, order, probe>>

NoStats == [hits |-> 0, misses |-> 0]
NoProbe == [key |-> <<>>, puts |-> 0]
NoCall == [fn |-> "", args |-> <<>>, result |-> <<>>]

NoLocals == [mode |-> "", region |-> NoRegion, monitor |-> 0, blocks |-> <<>>, src |-> "", tgt |-> "", misses |-> <<>>]

Op(name, was_running, calls) == [op |-> name, was_running |-> was_running, calls |-> calls]

---------------------------------------------------------------------------
(* FrameDiffer: src/core/frame_differ.py *)

downsample_width == 320

\* Grayscale + area-resample to downsample_width when the frame is wider.
Downsample(frame) == IF frame.w > downsample_width THEN Frame((frame.h * downsample_width) \div frame.w, downsample_width, frame.lum) ELSE frame

\* (mutant) the first frame after a reset is not reported as changed.
has_changed_not_first(prev, frame, thr) ==
  LET gray == Downsample(frame) IN
  IF prev = NoFrame THEN FALSE
  ELSE IF <<gray.h, gray.w>> # <<prev.h, prev.w>> THEN TRUE
  ELSE Abs(gray.lum - prev.lum) > thr

\* (mutant) frames of different shapes are compared all the same.
has_changed_any_shape(prev, frame, thr) ==
  LET gray == Downsample(frame) IN
  IF prev = NoFrame THEN TRUE
  ELSE Abs(gray.lum - prev.lum) > thr

\* (mutant) a difference equal to the threshold counts as a change.
has_changed_inclusive(prev, frame, thr) ==
  LET gray == Downsample(frame) IN
  IF prev = NoFrame THEN TRUE
  ELSE IF <<gray.h, gray.w>> # <<prev.h, prev.w>> THEN TRUE
  ELSE Abs(gray.lum - prev.lum) >= thr

\* The verdict of has_changed(frame) against the stored reference `prev`.
has_changed(prev, frame, thr) ==
  LET gray == Downsample(frame) IN
  IF prev = NoFrame THEN TRUE
  ELSE IF <<gray.h, gray.w>> # <<prev.h, prev.w>> THEN TRUE
  ELSE Abs(gray.lum - prev.lum) > thr

\* (mutant) the reference is kept while the frames are reported unchanged.
stored_reference_fixed(prev, frame) == IF prev = NoFrame \/ <<Downsample(frame).h, Downsample(frame).w>> # <<prev.h, prev.w>> \/ Abs(Downsample(frame).lum - prev.lum) > DefaultThreshold THEN Downsample(frame) ELSE prev

\* The reference has_changed(frame) leaves behind (all three return paths).
stored_reference(prev, frame) == Downsample(frame)

---------------------------------------------------------------------------
(* TranslationCache: src/core/translation_cache.py *)

Key(text, src, tgt) == <<text, src, tgt>>

RECURSIVE IndexOf(_, _, _)
IndexOf(c, key, i) == IF i > Len(c) THEN 0 ELSE IF c[i].key = key THEN i ELSE IndexOf(c, key, i + 1)

Remove(c, i) == SubSeq(c, 1, i - 1) \o SubSeq(c, i + 1, Len(c))

cache_contains(c, key) == IndexOf(c, key, 1) # 0

\* get: the value on a hit (NoTranslation on a miss) ...
cache_get_value(c, key) == IF cache_contains(c, key) THEN c[IndexOf(c, key, 1)].val ELSE NoTranslation

\* (mutant) a hit does not promote the entry.
cache_get_no_touch(c, key) == c

\* ... and the cache after it (move_to_end on a hit).
cache_get_touch(c, key) == IF cache_contains(c, key) THEN Append(Remove(c, IndexOf(c, key, 1)), c[IndexOf(c, key, 1)]) ELSE c

\* (mutant) over capacity, the newest entries are dropped.
evict_newest(c, cap) == IF Len(c) > cap THEN SubSeq(c, 1, cap) ELSE c

RECURSIVE Evict(_, _)
Evict(c, cap) == IF Len(c) > cap /\ Len(c) > 0 THEN Evict(Tail(c), cap) ELSE c

\* put: insert/overwrite, move_to_end, evict from the front while over capacity.
cache_put(c, key, val, cap) ==
  LET entry == [key |-> key, val |-> val]
      placed == IF cache_contains(c, key) THEN Append(Remove(c, IndexOf(c, key, 1)), entry) ELSE Append(c, entry)
  IN Evict(placed, cap)

---------------------------------------------------------------------------
(* TranslationEngine / OCREngine as the orchestrator sees them. *)

\* A source text standing where a translation is expected.
AsString(text) == <<text>>

\* What a successful backend call returns for one text.
Translated(text, src, tgt) == <<text, src, tgt>>

\* translate_batch: the texts themselves when the model is not loaded or the
\* backend raised (the except branch), else one translation per text.
translate_batch(texts, src, tgt, is_loaded, fails) == IF ~is_loaded \/ fails THEN [i \in 1..Len(texts) |-> AsString(texts[i])] ELSE [i \in 1..Len(texts) |-> Translated(texts[i], src, tgt)]

\* set_language: _current_lang after the call.
set_language(current, flores_code) ==
  LET bcp47 == IF flores_to_bcp47(flores_code) = "None" THEN "en" ELSE flores_to_bcp47(flores_code) IN
  IF bcp47 = current THEN current ELSE bcp47

---------------------------------------------------------------------------
(* OCREngine._merge_paragraph_lines: src/core/ocr_engine.py.  A line is a   *)
(* text block with its geometry; colors are unset until sampled.            *)

Unset == <<>>
TextBlock(x, y, width, height, text, font_size) == [x |-> x, y |-> y, width |-> width, height |-> height, text |-> text, font_size |-> font_size, fg_color |-> Unset, bg_color |-> Unset]

Max(a, b) == IF a > b THEN a ELSE b

\* blocks.sort(key=lambda b: b.y): a stable sort.
RECURSIVE InsertByY(_, _)
InsertByY(sorted, b) == IF sorted = <<>> THEN <<b>> ELSE IF sorted[Len(sorted)].y <= b.y THEN Append(sorted, b) ELSE Append(InsertByY(SubSeq(sorted, 1, Len(sorted) - 1), b), sorted[Len(sorted)])

RECURSIVE SortByY(_)
SortByY(blocks) == IF blocks = <<>> THEN <<>> ELSE InsertByY(SortByY(SubSeq(blocks, 1, Len(blocks) - 1)), blocks[Len(blocks)])

\* (mutant) the left edges are not compared.
same_paragraph_gap_only(current, next_block) == 2 * (next_block.y - (current.y + current.height)) < 3 * current.height

\* gap < line_h * 1.5 and x_diff < current.width * 0.3, in integers.
same_paragraph(current, next_block) ==
  LET gap == next_block.y - (current.y + current.height)
      x_diff == Abs(next_block.x - current.x)
  IN 2 * gap < 3 * current.height /\ 10 * x_diff < 3 * current.width

\* (mutant) a merge keeps the accumulator's text only.
merge_into_drops_text(current, next_block) == TextBlock(Min(current.x, next_block.x), current.y, Max(current.x + current.width, next_block.x + next_block.width) - Min(current.x, next_block.x), next_block.y + next_block.height - current.y, current.text, current.font_size)

\* Merge: expand the bounding box, join the texts.
merge_into(current, next_block) ==
  LET new_x == Min(current.x, next_block.x)
      new_x2 == Max(current.x + current.width, next_block.x + next_block.width)
      new_y2 == next_block.y + next_block.height
  IN TextBlock(new_x, current.y, new_x2 - new_x, new_y2 - current.y, current.text \o " " \o next_block.text, current.font_size)

\* The loop over blocks[1:] with the accumulator `current`.
RECURSIVE MergeFold(_, _, _, _)
MergeFold(blocks, i, current, merged) ==
  IF i > Len(blocks) THEN Append(merged, current)
  ELSE IF same_paragraph(current, blocks[i]) THEN MergeFold(blocks, i + 1, merge_into(current, blocks[i]), merged)
  ELSE MergeFold(blocks, i + 1, blocks[i], Append(merged, current))

\* (mutant) a list of one block or none comes back empty.
merge_paragraph_lines_drops(blocks) == IF Len(blocks) <= 1 THEN <<>> ELSE MergeFold(SortByY(blocks), 2, SortByY(blocks)[1], <<>>)

\* _merge_paragraph_lines(blocks).
merge_paragraph_lines(blocks) == IF Len(blocks) <= 1 THEN blocks ELSE MergeFold(SortByY(blocks), 2, SortByY(blocks)[1], <<>>)

---------------------------------------------------------------------------
(* StyleExtractor.extract: src/core/style_extractor.py.  What k-means and  *)
(* the border median compute is abstracted to "a color was stored".         *)

\* The number of indices a numpy slice [start:stop] selects on an axis of
\* length n, for start >= 0 (a negative stop counts from the end).
SliceLen(start, stop, n) ==
  LET s == Min(start, n)
      e == IF stop < 0 THEN Max(stop + n, 0) ELSE Min(stop, n)
  IN Max(e - s, 0)

\* The expanded ROI clamped to the frame: <<x1, y1, x2, y2>>.
expanded_roi(frame, block) ==
  LET margin == Max(4, block.height \div 2)
  IN <<Max(0, block.x - margin), Max(0, block.y - margin), Min(frame.w, block.x + block.width + margin), Min(frame.h, block.y + block.height + margin)>>

\* `if x2 <= x1 or y2 <= y1: continue`
roi_empty(frame, block) == LET r == expanded_roi(frame, block) IN r[3] <= r[1] \/ r[4] <= r[2]

\* len(pixels): the pixels of the inner ROI, the block's area within the expanded ROI.
inner_pixels(frame, block) ==
  LET r == expanded_roi(frame, block)
      roi_w == r[3] - r[1]
      roi_h == r[4] - r[2]
      inner_x1 == Max(0, block.x - r[1])
      inner_y1 == Max(0, block.y - r[2])
      inner_x2 == Min(roi_w, (block.x - r[1]) + block.width)
      inner_y2 == Min(roi_h, (block.y - r[2]) + block.height)
  IN SliceLen(inner_y1, inner_y2, roi_h) * SliceLen(inner_x1, inner_x2, roi_w)

\* The block is left by one of the two `continue`s before k-means.
skipped(frame, block) == roi_empty(frame, block) \/ inner_pixels(frame, block) < 2

\* One iteration of the loop: skip, or fail inside the try (caught and
\* logged), or store both colors.
extract_block(frame, block, fails) == IF skipped(frame, block) \/ fails THEN block ELSE [block EXCEPT !.bg_color = <<"bg">>, !.fg_color = <<"fg">>]

\* (mutant) an exception in one block ends the loop.
extract_aborting(frame, blocks, failing) == [i \in 1..Len(blocks) |-> IF \E j \in 1..i : j \in failing /\ ~skipped(frame, blocks[j]) THEN blocks[i] ELSE extract_block(frame, blocks[i], FALSE)]

\* extract(frame, blocks), where sampling raises for the blocks at the
\* indices `failing` (if they get that far).
extract(frame, blocks, failing) == [i \in 1..Len(blocks) |-> extract_block(frame, blocks[i], i \in failing)]

---------------------------------------------------------------------------
(* blocks_ready: a Qt signal connected with the default connection type    *)
(* (app.py _connect_signals).  The overlay lives in the main thread: an     *)
(* emission made on a worker thread is posted to the main thread's event   *)
(* loop; an emission made on the main thread itself calls the slot at once. *)

\* emit on a worker thread: the event queue after it.
emit_from_worker(q, blocks) == Append(q, blocks)

\* emit on the main thread: the number of queued emissions the slot call overtakes.
emit_from_main_overtakes(q) == Len(q)

CanEmit == Len(queue) < MaxQueue

---------------------------------------------------------------------------
(* Caller operations: PipelineThread.start / stop / shutdown (pipeline.py) *)

CaptureStarted(monitor) == [started |-> TRUE, monitor |-> monitor]
CaptureStopped == [capture EXCEPT !.started = FALSE]

\* The capture backend.  CaptureEngine.stop() on the caller's thread stops
\* the camera and closes the caller's own thread-local mss instance, of
\* which there is none: the caller never grabs.
capture_stop(b) == [b EXCEPT !.camera = "none"]

\* CaptureEngine.start() on the caller's thread: bettercam.create(...) when
\* bettercam is in use (creation taken to succeed); mss is left to grab().
capture_start(b) == [b EXCEPT !.camera = IF b.use_bettercam THEN "caller" ELSE "none"]

\* A new thread begins with empty thread-local storage.
thread_started(b, w) == [b EXCEPT !.mss[w] = "none"]

\* A thread that ends drops its thread-local storage: an instance it holds
\* is gone without close().
thread_exited(b, w) == [b EXCEPT !.mss[w] = IF b.mss[w] = "open" THEN "dropped" ELSE b.mss[w]]

\* CaptureEngine.grab() on worker w's thread: the camera when bettercam is in
\* use and created, else _get_mss() - the thread's own instance, created on
\* first use.
grab_backend(b, w) == IF b.use_bettercam /\ b.camera # "none" THEN b ELSE [b EXCEPT !.mss[w] = "open"]

Track(b) == IF "backend" \in rec THEN b ELSE backend

FreeSlot(Slots, w) == w \in Slots /\ pc[w] = "dead" /\ \A v \in Slots : v < w => pc[v] # "dead"

\* (mutant) start() restarts capture and resets also when running.
start_restarts(Slots) ==
  /\ mainPc = "idle"
  /\ IF running
     THEN /\ last' = Op("start", TRUE, <<>>)
          /\ capture' = CaptureStarted(settings.capture_monitor)
          /\ prev_frame' = NoFrame
          /\ null_frame_count' = 0
          /\ backend' = Track(capture_start(capture_stop(backend)))
          /\ UNCHANGED <<running, thread, workerState, frames, ocr_at, newborn>>
     ELSE \E w \in Slots :
          /\ FreeSlot(Slots, w)
          /\ capture' = CaptureStarted(settings.capture_monitor)
          /\ prev_frame' = NoFrame
          /\ null_frame_count' = 0
          /\ running' = TRUE
          /\ thread' = w
          /\ pc' = [pc EXCEPT ![w] = "loop"]
          /\ last' = Op("start", FALSE, <<"capture.stop", "capture.start", "differ.reset", "thread.start", "status_update">>)
          /\ frames' = <<>>
          /\ ocr_at' = {}
          /\ newborn' = IF "first" \in rec THEN newborn \cup {w} ELSE newborn
          /\ backend' = Track(thread_started(capture_start(capture_stop(backend)), w))
          /\ UNCHANGED <<loc, log, fresh, snap>>
  /\ UNCHANGED <<settings, app_settings, shared, threshold, ocr_lang, loaded, cache, max_size, last_blocks, queue, overlay, mainPc, upd, overtaken, rec, aux, call>>

\* start(): no-op when running; else restart capture, reset the differ and
\* the failure counter, set _running and start a new thread on _loop.
start(Slots) ==
  /\ mainPc = "idle"
  /\ IF running
     THEN /\ last' = Op("start", TRUE, <<>>)
          /\ UNCHANGED <<running, thread, workerState, capture, prev_frame, null_frame_count, frames, ocr_at, newborn, backend>>
     ELSE \E w \in Slots :
          /\ FreeSlot(Slots, w)
          /\ capture' = CaptureStarted(settings.capture_monitor)
          /\ prev_frame' = NoFrame
          /\ null_frame_count' = 0
          /\ running' = TRUE
          /\ thread' = w
          /\ pc' = [pc EXCEPT ![w] = "loop"]
          /\ last' = Op("start", FALSE, <<"capture.stop", "capture.start", "differ.reset", "thread.start", "status_update">>)
          /\ frames' = <<>>
          /\ ocr_at' = {}
          /\ newborn' = IF "first" \in rec THEN newborn \cup {w} ELSE newborn
          /\ backend' = Track(thread_started(capture_start(capture_stop(backend)), w))
          /\ UNCHANGED <<loc, log, fresh, snap>>
  /\ UNCHANGED <<settings, app_settings, shared, threshold, ocr_lang, loaded, cache, max_size, last_blocks, queue, overlay, mainPc, upd, overtaken, rec, aux, call>>

\* (mutant) the failure is raised after _running was set.
start_fails_running ==
  /\ mainPc = "idle"
  /\ ~running
  /\ running' = TRUE
  /\ capture' = [started |-> FALSE, monitor |-> settings.capture_monitor]
  /\ last' = Op("start", FALSE, <<"capture.stop", "capture.start", "raise">>)
  /\ backend' = Track(capture_stop(backend))
  /\ UNCHANGED <<thread, workerState, settings, app_settings, shared, prev_frame, threshold, ocr_lang, loaded, cache, max_size, last_blocks, null_frame_count, queue, overlay, mainPc, upd, overtaken, history, aux, call, newborn>>

\* start() when no capture backend is available: capture.stop(), then
\* capture.start() records the monitor and raises RuntimeError, which
\* start() does not catch - the statements after it are not executed.
start_fails ==
  /\ mainPc = "idle"
  /\ ~running
  /\ capture' = [started |-> FALSE, monitor |-> settings.capture_monitor]
  /\ last' = Op("start", FALSE, <<"capture.stop", "capture.start", "raise">>)
  /\ backend' = Track(capture_stop(backend))
  /\ UNCHANGED <<running, thread, workerState, settings, app_settings, shared, prev_frame, threshold, ocr_lang, loaded, cache, max_size, last_blocks, null_frame_count, queue, overlay, mainPc, upd, overtaken, history, aux, call, newborn>>

\* (mutant) stop() forgets the empty publication.
stop_body_silent(name, more) ==
  IF ~running
  THEN /\ last' = Op(name, FALSE, more)
       /\ UNCHANGED <<running, overlay, overtaken>>
  ELSE /\ running' = FALSE
       /\ last' = Op(name, TRUE, <<"status_update">> \o more)
       /\ UNCHANGED <<overlay, overtaken>>

\* The body of stop(): clear _running and emit an empty block set on the
\* calling (main) thread, which runs the overlay's slot at once.
stop_body(name, more) ==
  IF ~running
  THEN /\ last' = Op(name, FALSE, more)
       /\ UNCHANGED <<running, overlay, overtaken>>
  ELSE /\ running' = FALSE
       /\ overlay' = <<>>
       /\ overtaken' = emit_from_main_overtakes(queue)
       /\ last' = Op(name, TRUE, <<"blocks_ready", "status_update">> \o more)

stop ==
  /\ mainPc = "idle"
  /\ stop_body("stop", <<>>)
  /\ UNCHANGED <<thread, workerState, settings, app_settings, shared, engines, last_blocks, null_frame_count, queue, mainPc, upd, history, aux, call, newborn, backend>>

ThreadAlive == thread # 0 /\ pc[thread] # "dead"

\* shutdown(): stop(), then join the latest thread (up to 3 s), then release
\* capture and unload the model.  The join is the step shutdown_join.
shutdown ==
  /\ mainPc = "idle"
  /\ IF ThreadAlive
     THEN /\ stop_body("shutdown", <<"thread.join">>)
          /\ mainPc' = "join"
          /\ UNCHANGED <<capture, loaded, backend>>
     ELSE /\ stop_body("shutdown", <<"capture.stop", "translation.unload">>)
          /\ capture' = CaptureStopped
          /\ backend' = Track(capture_stop(backend))
          /\ loaded' = FALSE
          /\ UNCHANGED mainPc
  /\ UNCHANGED <<thread, workerState, settings, app_settings, shared, prev_frame, threshold, ocr_lang, cache, max_size, last_blocks, null_frame_count, queue, upd, history, aux, call, newborn>>

\* join(timeout=3.0) returns: the thread has exited, or the timeout elapsed.
shutdown_join ==
  /\ mainPc = "join"
  /\ mainPc' = "idle"
  /\ capture' = CaptureStopped
  /\ backend' = Track(capture_stop(backend))
  /\ loaded' = FALSE
  /\ last' = Op("shutdown", last.was_running, last.calls \o <<"capture.stop", "translation.unload">>)
  /\ UNCHANGED <<running, thread, workerState, settings, app_settings, shared, prev_frame, threshold, ocr_lang, cache, max_size, last_blocks, null_frame_count, queue, overlay, upd, overtaken, history, aux, call, newborn>>

\* The main thread's event loop runs the slot of the oldest queued emission:
\* OverlayWindow.update_blocks.
deliver ==
  /\ mainPc = "idle"
  /\ queue # <<>>
  /\ overlay' = Head(queue)
  /\ queue' = Tail(queue)
  /\ overtaken' = 0
  /\ UNCHANGED <<running, thread, workerState, settings, app_settings, shared, engines, last_blocks, null_frame_count, mainPc, last, upd, history, aux, call, newborn, backend>>

---------------------------------------------------------------------------
(* Settings: PipelineThread.update_settings (pipeline.py) and the handlers  *)
(* of the application that call it (app.py, settings_dialog.py).            *)
(* ocr.confidence_threshold is propagated too; OCREngine.detect never reads *)
(* it, so it is not part of the state.                                      *)

Fields == {"capture_mode", "capture_region", "capture_monitor", "source_language", "target_language", "frame_diff_threshold", "max_cache_size"}

ChangedFields(old, new) == {f \in Fields : old[f] # new[f]}

\* `if settings.source_language != old_source and settings.source_language != "auto"`
language_changed(old_source, new) == new.source_language # old_source /\ new.source_language # "auto"

\* (mutant) every settings change restarts capture.
restart_always(old_monitor, old_mode, new) == TRUE

\* `if settings.capture_monitor != old_monitor or settings.capture_mode != old_mode`
restart_needed(old_monitor, old_mode, new) == new.capture_monitor # old_monitor \/ new.capture_mode # old_mode

\* update_settings(new) where `old` is what self.settings shows when the old
\* monitor, mode and source language are read (lines 102-104), and `before`
\* the settings that were in effect for the worker before the caller's change.
apply_settings(before, old, new) ==
  /\ settings' = new
  /\ threshold' = new.frame_diff_threshold
  /\ max_size' = new.max_cache_size
  /\ ocr_lang' = IF language_changed(old.source_language, new) THEN set_language(ocr_lang, new.source_language) ELSE ocr_lang
  /\ capture' = IF restart_needed(old.capture_monitor, old.capture_mode, new) THEN CaptureStarted(new.capture_monitor) ELSE capture
  /\ backend' = IF restart_needed(old.capture_monitor, old.capture_mode, new) THEN Track(capture_start(capture_stop(backend))) ELSE backend
  /\ prev_frame' = IF restart_needed(old.capture_monitor, old.capture_mode, new) THEN NoFrame ELSE prev_frame
  /\ probe' = IF new.max_cache_size # max_size THEN NoProbe ELSE probe
  /\ upd' = IF "upd" \in rec THEN ChangedFields(before, new) ELSE upd
  /\ fresh' = [w \in Workers |-> FALSE]

\* A caller hands update_settings a settings object of its own.
update_settings(Dom) ==
  /\ mainPc = "idle"
  /\ \E new \in Dom : apply_settings(settings, settings, new)
  /\ shared' = FALSE
  /\ UNCHANGED <<running, thread, pc, loc, log, snap, app_settings, loaded, cache, last_blocks, null_frame_count, queue, overlay, mainPc, last, overtaken, history, stats, errors, order, call, newborn>>

\* The application changes its settings object `to` in place and passes that
\* object on: when the pipeline references the same object, the old values
\* update_settings reads are already the new ones.
app_update(to) ==
  /\ mainPc = "idle"
  /\ app_settings' = to
  /\ apply_settings(settings, IF shared THEN to ELSE settings, to)
  /\ shared' = TRUE
  /\ UNCHANGED <<running, thread, pc, loc, log, snap, loaded, last_blocks, null_frame_count, queue, overlay, mainPc, last, overtaken, history, errors, call, newborn>>

\* AppController._on_source_changed: set, update_settings, cache.clear().
on_source_changed(Langs) ==
  /\ \E code \in Langs : app_update([app_settings EXCEPT !.source_language = code])
  /\ cache' = <<>>
  /\ stats' = NoStats
  /\ order' = <<>>

\* AppController._on_target_changed: set, update_settings, cache.clear().
on_target_changed(Langs) ==
  /\ \E code \in Langs : app_update([app_settings EXCEPT !.target_language = code])
  /\ cache' = <<>>
  /\ stats' = NoStats
  /\ order' = <<>>

\* AppController._on_region_selected: region mode with the selected region.
on_region_selected(Regions) ==
  /\ \E region \in Regions : app_update([app_settings EXCEPT !.capture_mode = "region", !.capture_region = region])
  /\ UNCHANGED <<cache, stats, order>>

\* SettingsDialog._save writes the dialog's values into the application's
\* settings object (all fields but capture_region) and emits that object;
\* AppController._on_settings_changed passes it to update_settings.
on_settings_changed(Dom) ==
  /\ \E d \in Dom : app_update([d EXCEPT !.capture_region = app_settings.capture_region])
  /\ UNCHANGED <<cache, stats, order>>

---------------------------------------------------------------------------
(* The worker: PipelineThread._loop and _run_cycle (pipeline.py).  A worker *)
(* is suspended in the inter-cycle sleep ("loop"), in capture.grab         *)
(* ("grab"), in ocr.detect ("ocr") or in translate_batch ("translate");    *)
(* one action is the code it runs from one suspension point to the next.   *)

NoPair == [src |-> "", tgt |-> ""]

Ev(name, blocks, args) == [ev |-> name, blocks |-> blocks, args |-> args]

Goto(w, label) == pc' = [pc EXCEPT ![w] = label]
Logged(w, events) == log' = IF "log" \in rec THEN [log EXCEPT ![w] = log[w] \o events] ELSE log
Returned(w) == loc' = [loc EXCEPT ![w] = NoLocals] /\ fresh' = [fresh EXCEPT ![w] = FALSE] /\ snap' = [snap EXCEPT ![w] = NoPair]

\* 1. Capture geometry: region mode with a region set, else the full screen.
resolve_region(s) == IF s.capture_mode = "region" /\ s.capture_region # NoRegion THEN s.capture_region ELSE NoRegion

\* (mutant) the loop never tests the running flag.
loop_check_forever(w) ==
  /\ pc[w] = "loop"
  /\ Goto(w, "grab")
  /\ loc' = [loc EXCEPT ![w].mode = settings.capture_mode, ![w].region = resolve_region(settings), ![w].monitor = settings.capture_monitor]
  /\ log' = [log EXCEPT ![w] = <<>>]
  /\ fresh' = [fresh EXCEPT ![w] = "upd" \in rec]
  /\ snap' = [snap EXCEPT ![w] = IF "upd" \in rec THEN [src |-> settings.source_language, tgt |-> settings.target_language] ELSE NoPair]
  /\ UNCHANGED <<running, thread, settings, app_settings, shared, engines, last_blocks, null_frame_count, queue, overlay, mainPc, last, upd, overtaken, history, aux, call, newborn, backend>>

\* `while self._running:` after the sleep - leave the loop and exit, or begin
\* a cycle: resolve the geometry and call capture.grab(mode, region, monitor).
loop_check(w) ==
  /\ pc[w] = "loop"
  /\ IF running
     THEN /\ Goto(w, "grab")
          /\ loc' = [loc EXCEPT ![w].mode = settings.capture_mode, ![w].region = resolve_region(settings), ![w].monitor = settings.capture_monitor]
          /\ log' = [log EXCEPT ![w] = <<>>]
          /\ fresh' = [fresh EXCEPT ![w] = "upd" \in rec]
          /\ snap' = [snap EXCEPT ![w] = IF "upd" \in rec THEN [src |-> settings.source_language, tgt |-> settings.target_language] ELSE NoPair]
          /\ UNCHANGED <<newborn, backend>>
     ELSE /\ Goto(w, "dead")
          /\ Returned(w)
          /\ log' = [log EXCEPT ![w] = <<>>]
          /\ newborn' = newborn \ {w}
          /\ backend' = Track(thread_exited(backend, w))
  /\ UNCHANGED <<running, thread, settings, app_settings, shared, engines, last_blocks, null_frame_count, queue, overlay, mainPc, last, upd, overtaken, history, aux, call>>

\* (mutant) the stale overlay is never cleared.
clear_stale_never(w) ==
  /\ Logged(w, <<Ev("changed", last_blocks, <<>>)>>)
  /\ UNCHANGED <<last_blocks, queue>>

\* (mutant) the stale overlay is cleared without resetting _last_blocks.
clear_stale_keeps_last(w) ==
  IF last_blocks # <<>>
  THEN /\ CanEmit
       /\ queue' = emit_from_worker(queue, <<>>)
       /\ Logged(w, <<Ev("changed", last_blocks, <<>>), Ev("pub", <<>>, <<>>)>>)
       /\ UNCHANGED last_blocks
  ELSE /\ Logged(w, <<Ev("changed", <<>>, <<>>)>>)
       /\ UNCHANGED <<last_blocks, queue>>

\* The frame changed: clear the stale overlay, if anything was published.
clear_stale(w) ==
  IF last_blocks # <<>>
  THEN /\ CanEmit
       /\ last_blocks' = <<>>
       /\ queue' = emit_from_worker(queue, <<>>)
       /\ Logged(w, <<Ev("changed", last_blocks, <<>>), Ev("pub", <<>>, <<>>)>>)
  ELSE /\ Logged(w, <<Ev("changed", <<>>, <<>>)>>)
       /\ UNCHANGED <<last_blocks, queue>>

\* (mutant) an unchanged frame publishes nothing.
republish_never(w) ==
  /\ Logged(w, <<Ev("unchanged", last_blocks, <<>>)>>)
  /\ UNCHANGED <<last_blocks, queue>>

\* The frame did not change: republish _last_blocks, if non-empty.
republish(w) ==
  /\ last_blocks # <<>> => CanEmit
  /\ queue' = IF last_blocks # <<>> THEN emit_from_worker(queue, last_blocks) ELSE queue
  /\ Logged(w, <<Ev("unchanged", last_blocks, <<>>)>> \o (IF last_blocks # <<>> THEN <<Ev("pub", last_blocks, <<>>)>> ELSE <<>>))
  /\ UNCHANGED last_blocks

\* (mutant) a null frame resets the failure counter.
count_null_reset(n) == 0

\* `self._null_frame_count += 1` (counted up to MaxNull).
count_null(n) == Min(n + 1, MaxNull)

\* capture.grab returns: None when capture is not started, else what the
\* screen shows (Frames may hold NoFrame: a failed grab).  A null frame is
\* counted and ends the cycle.  2. Frame diff: an unchanged frame ends the
\* cycle; a changed one goes on to ocr.detect.
grab_returns(w, Frames) ==
  /\ pc[w] = "grab"
  /\ "frames" \in rec => Len(frames) < MaxCycles
  /\ backend' = IF capture.started THEN Track(grab_backend(backend, w)) ELSE backend
  /\ \E f \in (IF capture.started THEN Frames ELSE {NoFrame}) :
       /\ frames' = IF "frames" \in rec THEN Append(frames, f) ELSE frames
       /\ IF f = NoFrame
          THEN /\ null_frame_count' = count_null(null_frame_count)
               /\ Logged(w, <<Ev("null", <<>>, <<>>)>>)
               /\ Returned(w)
               /\ Goto(w, "loop")
               /\ UNCHANGED <<prev_frame, last_blocks, queue, newborn>>
          ELSE /\ null_frame_count' = 0
               /\ prev_frame' = stored_reference(prev_frame, f)
               /\ newborn' = newborn \ {w}
               /\ IF has_changed(prev_frame, f, threshold)
                  THEN /\ clear_stale(w)
                       /\ Goto(w, "ocr")
                       /\ UNCHANGED <<loc, fresh, snap>>
                  ELSE /\ republish(w)
                       /\ Returned(w)
                       /\ Goto(w, "loop")
  /\ UNCHANGED <<running, thread, settings, app_settings, shared, capture, threshold, ocr_lang, loaded, cache, max_size, overlay, mainPc, last, upd, overtaken, rec, ocr_at, aux, call>>

\* "auto" is translated as English.
effective_src(src_lang) == IF src_lang # "auto" THEN src_lang ELSE "eng_Latn"

\* The loop over the blocks: cache.get for each, in order.
RECURSIVE LookupFold(_, _, _, _, _, _)
LookupFold(blocks, i, c, src, tgt, misses) ==
  IF i > Len(blocks) THEN [blocks |-> blocks, cache |-> c, misses |-> misses]
  ELSE LET key == Key(blocks[i].text, src, tgt) IN
       IF cache_contains(c, key)
       THEN LookupFold([blocks EXCEPT ![i].translation = cache_get_value(c, key)], i + 1, cache_get_touch(c, key), src, tgt, misses)
       ELSE LookupFold(blocks, i + 1, c, src, tgt, Append(misses, i))

\* _hits / _misses after `hits` more hits and `misses` more misses.
counted(st, hits, misses) == [hits |-> Min(st.hits + hits, MaxCount), misses |-> Min(st.misses + misses, MaxCount)]

\* 7. Emit to overlay.
emit_blocks(w, blocks, events) ==
  /\ CanEmit
  /\ last_blocks' = blocks
  /\ queue' = emit_from_worker(queue, blocks)
  /\ Logged(w, events \o <<Ev("pub", blocks, <<>>)>>)
  /\ Returned(w)
  /\ Goto(w, "loop")

\* (mutant) an empty OCR result ends the cycle without a publication.
ocr_empty_silent(w) ==
  /\ Logged(w, <<Ev("ocr", <<>>, <<>>)>>)
  /\ Returned(w)
  /\ Goto(w, "loop")
  /\ UNCHANGED <<last_blocks, queue, cache, stats>>

\* `if not blocks`: _last_blocks = [], publish the empty set, return.
ocr_empty(w) ==
  /\ emit_blocks(w, <<>>, <<Ev("ocr", <<>>, <<>>)>>)
  /\ UNCHANGED <<cache, stats>>

\* 3. ocr.detect returns: no blocks publishes empty and ends the cycle.
\* 4. Else extract the styles (the colors are not part of a block here),
\* 5. read the language pair, look every block up in the cache and
\* call translate_batch for the misses; with no miss, publish at once.
ocr_returns(w, Results) ==
  /\ pc[w] = "ocr"
  /\ ocr_at' = IF "frames" \in rec THEN ocr_at \cup {Len(frames)} ELSE ocr_at
  /\ \E blocks \in Results :
       IF blocks = <<>>
       THEN ocr_empty(w)
       ELSE LET src == effective_src(settings.source_language)
                tgt == settings.target_language
                r == LookupFold(blocks, 1, cache, src, tgt, <<>>)
            IN /\ cache' = r.cache
               /\ stats' = IF "stats" \in rec THEN counted(stats, Len(blocks) - Len(r.misses), Len(r.misses)) ELSE stats
               /\ IF r.misses = <<>>
                  THEN emit_blocks(w, r.blocks, <<Ev("ocr", blocks, <<>>), Ev("style", blocks, <<>>)>>)
                  ELSE /\ loc' = [loc EXCEPT ![w].blocks = r.blocks, ![w].misses = r.misses, ![w].src = src, ![w].tgt = tgt]
                       /\ Logged(w, <<Ev("ocr", blocks, <<>>), Ev("style", blocks, <<>>)>>)
                       /\ Goto(w, "translate")
                       /\ UNCHANGED <<last_blocks, queue, fresh, snap>>
  /\ UNCHANGED <<running, thread, settings, app_settings, shared, capture, prev_frame, threshold, ocr_lang, loaded, max_size, null_frame_count, overlay, mainPc, last, upd, overtaken, rec, frames, errors, order, probe, call, newborn, backend>>

\* (mutant) the translations are assigned but not cached.
StoreFold_no_put(blocks, misses, trans, j, c, src, tgt, cap) == [blocks |-> [i \in 1..Len(blocks) |-> IF \E k \in 1..Len(misses) : misses[k] = i /\ k <= Len(trans) THEN [blocks[i] EXCEPT !.translation = trans[CHOOSE k \in 1..Len(misses) : misses[k] = i]] ELSE blocks[i]], cache |-> c]

\* The loop over the returned translations: assign, then cache.put.
RECURSIVE StoreFold(_, _, _, _, _, _, _, _)
StoreFold(blocks, misses, trans, j, c, src, tgt, cap) ==
  IF j > Len(misses) \/ j > Len(trans) THEN [blocks |-> blocks, cache |-> c]
  ELSE StoreFold([blocks EXCEPT ![misses[j]].translation = trans[j]], misses, trans, j + 1, cache_put(c, Key(blocks[misses[j]].text, src, tgt), trans[j], cap), src, tgt, cap)

\* (mutant) the batch holds the text of every block.
to_translate_all(blocks, misses) == [i \in 1..Len(blocks) |-> blocks[i].text]

\* to_translate: the texts of the blocks that missed the cache, in block order.
to_translate(blocks, misses) == [j \in 1..Len(misses) |-> blocks[misses[j]].text]

\* 6. translate_batch returns: assign and cache the translations, publish.
translate_returns(w, Fails) ==
  /\ pc[w] = "translate"
  /\ \E fails \in Fails :
       LET texts == to_translate(loc[w].blocks, loc[w].misses)
           trans == translate_batch(texts, loc[w].src, loc[w].tgt, loaded, fails)
           r == StoreFold(loc[w].blocks, loc[w].misses, trans, 1, cache, loc[w].src, loc[w].tgt, max_size)
       IN /\ cache' = r.cache
          /\ emit_blocks(w, r.blocks, <<Ev("translate", <<>>, <<texts, loc[w].src, loc[w].tgt, IF ~loaded \/ fails THEN "failed" ELSE "ok">>)>>)
  /\ UNCHANGED <<running, thread, settings, app_settings, shared, capture, prev_frame, threshold, ocr_lang, loaded, max_size, null_frame_count, overlay, mainPc, last, upd, overtaken, history, aux, call, newborn, backend>>

\* ocr.detect fails: OCREngine.detect catches the exception of the
\* recognizer, logs it and returns [], which _run_cycle publishes.
ocr_fails(w) ==
  /\ pc[w] = "ocr"
  /\ ocr_at' = IF "frames" \in rec THEN ocr_at \cup {Len(frames)} ELSE ocr_at
  /\ emit_blocks(w, <<>>, <<Ev("ocr", <<>>, <<"raised">>)>>)
  /\ UNCHANGED <<running, thread, settings, app_settings, shared, engines, null_frame_count, overlay, mainPc, last, upd, overtaken, rec, frames, aux, call, newborn, backend>>

\* (mutant) an exception that escapes the cycle ends the thread.
cycle_raises_fatal(w) ==
  /\ pc[w] \in {"grab", "ocr"}
  /\ pc[w] = "grab" => capture.started
  /\ errors < MaxErrors
  /\ null_frame_count' = 0
  /\ Logged(w, <<Ev("error", <<>>, <<>>)>>)
  /\ Returned(w)
  /\ Goto(w, "dead")
  /\ UNCHANGED <<running, thread, settings, app_settings, shared, engines, last_blocks, queue, overlay, mainPc, last, upd, overtaken, history, aux, call, newborn, backend>>

\* An exception escapes _run_cycle - has_changed raises on the captured
\* frame (after the failure counter was reset), or the code between
\* ocr.detect's recognizer call and the cache lookups raises.  _loop catches
\* it, emits error_occurred and goes on to the inter-cycle sleep.
cycle_raises(w) ==
  /\ pc[w] \in {"grab", "ocr"}
  /\ pc[w] = "grab" => capture.started
  /\ errors < MaxErrors
  /\ errors' = errors + 1
  /\ null_frame_count' = 0
  /\ Logged(w, <<Ev("error", <<>>, <<>>)>>)
  /\ Returned(w)
  /\ Goto(w, "loop")
  /\ UNCHANGED <<running, thread, settings, app_settings, shared, engines, last_blocks, queue, overlay, mainPc, last, upd, overtaken, history, stats, order, probe, call, newborn, backend>>

cycle(w, Frames, Results, Fails) ==
  \/ loop_check(w)
  \/ grab_returns(w, Frames)
  \/ ocr_returns(w, Results)
  \/ translate_returns(w, Fails)

---------------------------------------------------------------------------
(* Initial state: PipelineThread.__init__ followed by initialize(), with    *)
(* the application's settings object handed to the pipeline (app.py:80).   *)

InitBackend(s, recording, bettercam) ==
  /\ running = FALSE
  /\ thread = 0
  /\ pc = [w \in Workers |-> "dead"]
  /\ loc = [w \in Workers |-> NoLocals]
  /\ settings = s
  /\ app_settings = s
  /\ shared = TRUE
  /\ capture = [started |-> FALSE, monitor |-> 0]
  /\ prev_frame = NoFrame
  /\ threshold = s.frame_diff_threshold
  /\ ocr_lang = initial_ocr_lang(s.source_language)
  /\ loaded = TRUE
  /\ cache = <<>>
  /\ max_size = s.max_cache_size
  /\ last_blocks = <<>>
  /\ null_frame_count = 0
  /\ queue = <<>>
  /\ overlay = <<>>
  /\ mainPc = "idle"
  /\ last = Op("init", FALSE, <<>>)
  /\ log = [w \in Workers |-> <<>>]
  /\ upd = {}
  /\ fresh = [w \in Workers |-> FALSE]
  /\ snap = [w \in Workers |-> NoPair]
  /\ overtaken = 0
  /\ rec = recording
  /\ frames = <<>>
  /\ ocr_at = {}
  /\ stats = NoStats
  /\ errors = 0
  /\ order = <<>>
  /\ probe = NoProbe
  /\ call = NoCall
  /\ newborn = {}
  /\ backend = [use_bettercam |-> bettercam, camera |-> "none", mss |-> [w \in Workers |-> "none"]]

\* The same where bettercam is not installed.
InitWith(s, recording) == InitBackend(s, recording, FALSE)

Settings0 == AppSettings("fullscreen", NoRegion, 0, "auto", "fra_Latn", DefaultThreshold, MaxCache)

OneBlock == <<Block("a")>>

---------------------------------------------------------------------------
(* Spec: the session life cycle - any caller sequence of start/stop/shutdown *)
(* against up to MaxWorkers threads, with fixed settings.                  *)

Init == InitWith(Settings0, {"log"})

Next ==
  \/ start(Workers)
  \/ stop
  \/ shutdown
  \/ shutdown_join
  \/ deliver
  \/ \E w \in Workers : cycle(w, {FrameA, FrameB}, {<<>>, OneBlock}, {FALSE})

Spec == Init /\ [][Next]_vars

---------------------------------------------------------------------------
(* SpecStop: the session life cycle under fair scheduling - every thread    *)
(* that can take a step eventually takes one: the blocking calls of a cycle *)
(* (grab, OCR, translation, the inter-cycle sleep) return and join()        *)
(* returns (weak fairness).  The main thread's event loop runs queued slot  *)
(* calls in the order they were posted, between the caller's operations: a  *)
(* posted call is run however often the caller enters shutdown's join in    *)
(* the meantime (strong fairness).                                          *)

InitStop == InitWith(Settings0, {})

worker_step(w) == cycle(w, {FrameA, FrameB}, {<<>>, OneBlock}, {FALSE})

NextStop ==
  \/ start(Workers)
  \/ stop
  \/ shutdown
  \/ shutdown_join
  \/ deliver
  \/ \E w \in Workers : worker_step(w)

FairStop == WF_vars(shutdown_join) /\ SF_vars(deliver) /\ \A w \in Workers : WF_vars(worker_step(w))

SpecStop == InitStop /\ [][NextStop]_vars /\ FairStop

---------------------------------------------------------------------------
(* SpecScenario: one session at a time (a single thread slot), with the     *)
(* frames it captures and the cycles that invoke OCR recorded, for the      *)
(* first MaxCycles cycles of each session.                                  *)

InitScenario == InitWith(Settings0, {"frames"})

NextScenario ==
  \/ start({1})
  \/ stop
  \/ deliver
  \/ cycle(1, {FrameA, FrameB, FrameC}, {<<>>, OneBlock}, {FALSE})

SpecScenario == InitScenario /\ [][NextScenario]_vars

---------------------------------------------------------------------------
(* SpecSettings: a caller passes update_settings settings objects of its    *)
(* own, and the application changes the target language, while a session    *)
(* runs against a single thread slot.                                       *)

SrcLangs == {"auto", "jpn_Jpan"}
TgtLangs == {"eng_Latn", "fra_Latn"}
Monitors == {0, 1}

SettingsDom == {AppSettings("fullscreen", NoRegion, mon, src, tgt, DefaultThreshold, 1) : mon \in Monitors, src \in SrcLangs, tgt \in TgtLangs}

Settings1 == AppSettings("fullscreen", NoRegion, 0, "auto", "fra_Latn", DefaultThreshold, 1)

InitSettings == InitWith(Settings1, {"upd"})

NextSettings ==
  \/ start({1})
  \/ deliver
  \/ update_settings(SettingsDom)
  \/ on_target_changed(TgtLangs)
  \/ cycle(1, {FrameA, FrameB}, {OneBlock}, {FALSE})

SpecSettings == InitSettings /\ [][NextSettings]_vars

---------------------------------------------------------------------------
(* SpecCapture: the capture backend's instances over the session life       *)
(* cycle of one session at a time, with bettercam installed or not, and     *)
(* monitor changes.                                                         *)

CaptureDom == {AppSettings("fullscreen", NoRegion, mon, "auto", "fra_Latn", DefaultThreshold, MaxCache) : mon \in Monitors}

InitCapture == \E bettercam \in BOOLEAN : InitBackend(Settings0, {"backend"}, bettercam)

NextCapture ==
  \/ start({1})
  \/ stop
  \/ shutdown
  \/ shutdown_join
  \/ deliver
  \/ update_settings(CaptureDom)
  \/ cycle(1, {FrameA}, {<<>>, OneBlock}, {FALSE})

SpecCapture == InitCapture /\ [][NextCapture]_vars

---------------------------------------------------------------------------
(* SpecApp: the application's handlers change the settings object the       *)
(* pipeline was constructed with while a session runs.                      *)

\* What the settings dialog is saved with.
DialogDom == {AppSettings(m, NoRegion, mon, "jpn_Jpan", "eng_Latn", DefaultThreshold, 1) : m \in {"fullscreen", "region"}, mon \in Monitors}

InitApp == InitWith(Settings1, {})

NextApp ==
  \/ start({1})
  \/ deliver
  \/ on_source_changed(SrcLangs)
  \/ on_target_changed(TgtLangs)
  \/ on_region_selected({Region1})
  \/ on_settings_changed(DialogDom)
  \/ cycle(1, {FrameA, FrameB}, {OneBlock}, {FALSE})

SpecApp == InitApp /\ [][NextApp]_vars

---------------------------------------------------------------------------
(* SpecFaults: one session at a time whose collaborators fail - capture    *)
(* returns no frame, the OCR recognizer or the translation backend raises, *)
(* an exception escapes the cycle.                                          *)

InitFaults == InitWith(Settings1, {"log", "stats"})

NextFaults ==
  \/ start({1})
  \/ stop
  \/ deliver
  \/ cycle(1, {FrameA, FrameB, NoFrame}, {<<>>, OneBlock}, {FALSE, TRUE})
  \/ ocr_fails(1)
  \/ cycle_raises(1)

SpecFaults == InitFaults /\ [][NextFaults]_vars

---------------------------------------------------------------------------
(* SpecRestart: sessions stopped and started again while the thread of an  *)
(* earlier session may still be alive, and starts that fail for want of a  *)
(* capture backend.                                                         *)

InitRestart == InitWith(Settings0, {"first"})

NextRestart ==
  \/ start(Workers)
  \/ start_fails
  \/ stop
  \/ deliver
  \/ \E w \in Workers : cycle(w, {FrameA, FrameB}, {OneBlock}, {FALSE})

SpecRestart == InitRestart /\ [][NextRestart]_vars

---------------------------------------------------------------------------
(* SpecDiffer: the change detector called directly - has_changed on frames *)
(* of several sizes and grey levels, reset - while update_settings changes *)
(* its threshold.  No session runs.                                         *)

Differ(name, args, result) == [fn |-> name, args |-> args, result |-> result]

\* The frame that began the current run of calls reported as unchanged: the
\* frame of the last call that reported a change.
run_start(c, prev, f, thr) == IF has_changed(prev, f, thr) \/ c.fn # "has_changed" THEN Downsample(f) ELSE c.args[4]

\* FrameDiffer.has_changed(frame): the verdict, and the reference it stores.
differ_has_changed(Frames) ==
  /\ mainPc = "idle"
  /\ \E f \in Frames :
       /\ call' = Differ("has_changed", <<f, prev_frame, threshold, run_start(call, prev_frame, f, threshold)>>, has_changed(prev_frame, f, threshold))
       /\ prev_frame' = stored_reference(prev_frame, f)
  /\ UNCHANGED <<running, thread, workerState, settings, app_settings, shared, capture, threshold, ocr_lang, loaded, cache, max_size, last_blocks, null_frame_count, queue, overlay, mainPc, last, upd, overtaken, history, aux, newborn, backend>>

\* FrameDiffer.reset().
reset ==
  /\ mainPc = "idle"
  /\ prev_frame' = NoFrame
  /\ call' = Differ("reset", <<>>, <<>>)
  /\ UNCHANGED <<running, thread, workerState, settings, app_settings, shared, capture, threshold, ocr_lang, loaded, cache, max_size, last_blocks, null_frame_count, queue, overlay, mainPc, last, upd, overtaken, history, aux, newborn, backend>>

Levels == {0, 4, 8, 10}
WideFrame(lum) == Frame(4, 2 * downsample_width, lum)
DifferFrames == {Frame(2, 2, lum) : lum \in Levels} \cup {Frame(2, 3, lum) : lum \in Levels} \cup {WideFrame(lum) : lum \in Levels}

\* The thresholds update_settings is called with: from 0 on.
Thresholds == {0, DefaultThreshold, 20}
ThrDom == {AppSettings("fullscreen", NoRegion, 0, "auto", "fra_Latn", thr, MaxCache) : thr \in Thresholds}

InitDiffer == InitWith(Settings0, {})

NextDiffer ==
  \/ differ_has_changed(DifferFrames)
  \/ reset
  \/ update_settings(ThrDom)

SpecDiffer == InitDiffer /\ [][NextDiffer]_vars

---------------------------------------------------------------------------
(* SpecMerge: the paragraph merger applied to the filtered lines of one    *)
(* OCR result: up to MaxLines distinct lines, in any order.                 *)

MaxLines == 3

\* The lines: a 10 x 10 line at the origin and lines below it, at and around
\* the two limits (gap 15 = 1.5 x 10, offset 3 = 0.3 x 10).
LineA == TextBlock(0, 0, 10, 10, "a", 8)
Lines == {LineA, TextBlock(0, 10, 10, 10, "b", 8), TextBlock(4, 10, 10, 20, "c", 15), TextBlock(3, 10, 10, 10, "d", 8), TextBlock(2, 24, 20, 10, "e", 8), TextBlock(0, 25, 10, 10, "f", 8), TextBlock(4, 20, 10, 20, "g", 15)}

\* One OCR result: distinct lines, in the order the recognizer gave them.
LineLists == UNION {{l \in [1..n -> Lines] : \A i, j \in 1..n : l[i] = l[j] => i = j} : n \in 0..MaxLines}

\* OCREngine.detect, its last step: merged = _merge_paragraph_lines(blocks).
detect_merge(Inputs) ==
  /\ mainPc = "idle"
  /\ \E blocks \in Inputs : call' = [fn |-> "merge", args |-> blocks, result |-> merge_paragraph_lines(blocks)]
  /\ UNCHANGED <<running, thread, workerState, settings, app_settings, shared, engines, last_blocks, null_frame_count, queue, overlay, mainPc, last, upd, overtaken, history, aux, newborn, backend>>

InitMerge == InitWith(Settings0, {})

NextMerge == detect_merge(LineLists)

SpecMerge == InitMerge /\ [][NextMerge]_vars

---------------------------------------------------------------------------
(* SpecStyle: style extraction applied to up to MaxStyled blocks of a      *)
(* frame, sampling failing for any of them.                                 *)

MaxStyled == 2

StyleFrame == Frame(30, 30, 0)

\* A 5 x 5 block inside the frame, a 1 x 1 block, a block outside the frame,
\* a block that begins left of the frame, and a 2 x 1 block.
BlockIn == TextBlock(10, 10, 5, 5, "a", 8)
BlockDot == TextBlock(10, 10, 1, 1, "b", 8)
BlockOut == TextBlock(50, 50, 5, 5, "c", 8)
BlockLeft == TextBlock(0 - 5, 10, 4, 10, "d", 8)
BlockPair == TextBlock(10, 10, 2, 1, "e", 8)
StyleBlocks == {BlockIn, BlockDot, BlockOut, BlockLeft, BlockPair}

StyleLists == UNION {[1..n -> StyleBlocks] : n \in 0..MaxStyled}

\* PipelineThread._run_cycle, step 4: style_extractor.extract(frame, style_blocks).
style_extract(Inputs) ==
  /\ mainPc = "idle"
  /\ \E blocks \in Inputs : \E failing \in SUBSET (1..Len(blocks)) :
       call' = [fn |-> "extract", args |-> <<StyleFrame, blocks, failing>>, result |-> extract(StyleFrame, blocks, failing)]
  /\ UNCHANGED <<running, thread, workerState, settings, app_settings, shared, engines, last_blocks, null_frame_count, queue, overlay, mainPc, last, upd, overtaken, history, aux, newborn, backend>>

InitStyle == InitWith(Settings0, {})

NextStyle == style_extract(StyleLists)

SpecStyle == InitStyle /\ [][NextStyle]_vars

---------------------------------------------------------------------------
(* SpecMergeBox: the paragraph merger applied to lines that overlap         *)
(* vertically: a tall line and shorter lines beginning inside its extent.   *)

LineTall == TextBlock(0, 0, 10, 30, "t", 22)
LineInside == TextBlock(1, 5, 10, 10, "i", 8)
BoxLines == {LineA, LineTall, LineInside, TextBlock(0, 10, 10, 10, "b", 8), TextBlock(2, 12, 4, 4, "n", 8), TextBlock(2, 24, 20, 10, "e", 8)}

BoxLists == UNION {{l \in [1..n -> BoxLines] : \A i, j \in 1..n : l[i] = l[j] => i = j} : n \in 0..MaxLines}

InitMergeBox == InitWith(Settings0, {})

NextMergeBox == detect_merge(BoxLists)

SpecMergeBox == InitMergeBox /\ [][NextMergeBox]_vars

---------------------------------------------------------------------------
(* SpecGeometry: the coordinates of one cycle - the region and offset that  *)
(* _run_cycle resolves, the screen area capture.grab covers, and the        *)
(* position detect gives a line found in the frame.  The monitor's origin   *)
(* is the screen origin.                                                    *)

MonitorRect == <<0, 0, 8, 8>>
Rects == {<<0, 0, 4, 4>>, <<2, 1, 4, 4>>, Region1}
FramePositions == {<<0, 0>>, <<1, 0>>, <<0, 1>>, <<1, 2>>}

\* pipeline.py: region and offset - region mode with a region set; window
\* mode with a window found and its rectangle read; otherwise none and 0, 0.
\* window_rect is NoRegion when no title is set, no window matches, or its
\* rectangle cannot be read.
cycle_region(mode, capture_region, window_rect) ==
  IF mode = "region" /\ capture_region # NoRegion THEN capture_region
  ELSE IF mode = "window" /\ window_rect # NoRegion THEN window_rect
  ELSE NoRegion

cycle_offset(mode, capture_region, window_rect) ==
  IF cycle_region(mode, capture_region, window_rect) = NoRegion THEN <<0, 0>>
  ELSE <<cycle_region(mode, capture_region, window_rect)[1], cycle_region(mode, capture_region, window_rect)[2]>>

\* capture_engine.py, both backends: the region when the mode is REGION and
\* a region is given, else the whole monitor.
grab_area(mode, region) == IF mode = "region" /\ region # NoRegion THEN region ELSE MonitorRect

\* ocr_engine.py: x = x + offset_x, y = y + offset_y.
detect_position(pos, offset) == <<pos[1] + offset[1], pos[2] + offset[2]>>

run_cycle_geometry ==
  /\ mainPc = "idle"
  /\ \E mode \in {"fullscreen", "region", "window"} : \E capture_region \in Rects \cup {NoRegion} : \E window_rect \in Rects \cup {NoRegion} : \E pos \in FramePositions :
       call' = [fn |-> "geometry",
                args |-> <<mode, capture_region, window_rect, pos>>,
                result |-> [area |-> grab_area(mode, cycle_region(mode, capture_region, window_rect)),
                            pos |-> detect_position(pos, cycle_offset(mode, capture_region, window_rect))]]
  /\ UNCHANGED <<running, thread, workerState, settings, app_settings, shared, engines, last_blocks, null_frame_count, queue, overlay, mainPc, last, upd, overtaken, history, aux, newborn, backend>>

InitGeometry == InitWith(Settings0, {})

NextGeometry == run_cycle_geometry

SpecGeometry == InitGeometry /\ [][NextGeometry]_vars

---------------------------------------------------------------------------
(* SpecBatch: one session whose OCR returns one or two blocks, two of them *)
(* possibly with the same text, against a cache that may hold some of them. *)

TwoSame == <<Block("a"), Block("a")>>
TwoBlocks == <<Block("a"), Block("b")>>
TwoSwapped == <<Block("b"), Block("a")>>

InitBatch == InitWith(Settings0, {"log"})

NextBatch ==
  \/ start({1})
  \/ deliver
  \/ cycle(1, {FrameA, FrameB}, {OneBlock, TwoSame, TwoBlocks, TwoSwapped}, {FALSE, TRUE})

SpecBatch == InitBatch /\ [][NextBatch]_vars

---------------------------------------------------------------------------
(* SpecSmallCache: the session of SpecBatch against a cache of capacity 1, *)
(* less than the number of texts one cycle can translate.                  *)

InitSmallCache == InitWith(Settings1, {"log"})

SpecSmallCache == InitSmallCache /\ [][NextBatch]_vars

---------------------------------------------------------------------------
(* SpecCache: the translation cache called directly - get, put and clear,  *)
(* as the worker and the application's handlers call them - while           *)
(* update_settings changes its capacity.  No session runs.                  *)

\* The recency order of the keys used so far, after a use of `key`.
Touch(o, key) == Append(SelectSeq(o, LAMBDA k : k # key), key)

\* TranslationCache.get(text, source_lang, target_lang).
get(Keys) ==
  /\ mainPc = "idle"
  /\ \E key \in Keys :
       /\ cache' = cache_get_touch(cache, key)
       /\ stats' = IF cache_contains(cache, key) THEN counted(stats, 1, 0) ELSE counted(stats, 0, 1)
       /\ order' = IF cache_contains(cache, key) THEN Touch(order, key) ELSE order
       /\ probe' = IF cache_contains(cache, key) THEN [key |-> key, puts |-> 0] ELSE probe
  /\ UNCHANGED <<running, thread, workerState, settings, app_settings, shared, capture, prev_frame, threshold, ocr_lang, loaded, max_size, last_blocks, null_frame_count, queue, overlay, mainPc, last, upd, overtaken, history, errors, call, newborn, backend>>

\* TranslationCache.put(text, source_lang, target_lang, translation).
put(Keys, Vals) ==
  /\ mainPc = "idle"
  /\ \E key \in Keys, val \in Vals :
       /\ cache' = cache_put(cache, key, val, max_size)
       /\ order' = Touch(order, key)
       /\ probe' = IF probe.key # <<>> /\ ~cache_contains(cache, key) THEN [probe EXCEPT !.puts = Min(probe.puts + 1, MaxCache + 1)] ELSE NoProbe
  /\ UNCHANGED <<running, thread, workerState, settings, app_settings, shared, capture, prev_frame, threshold, ocr_lang, loaded, max_size, last_blocks, null_frame_count, queue, overlay, mainPc, last, upd, overtaken, history, stats, errors, call, newborn, backend>>

\* (mutant) clear() keeps the counters.
clear_keeps_counts ==
  /\ mainPc = "idle"
  /\ cache' = <<>>
  /\ last' = Op("clear", running, <<>>)
  /\ order' = <<>>
  /\ probe' = NoProbe
  /\ UNCHANGED <<running, thread, workerState, settings, app_settings, shared, capture, prev_frame, threshold, ocr_lang, loaded, max_size, last_blocks, null_frame_count, queue, overlay, mainPc, upd, overtaken, history, stats, errors, call, newborn, backend>>

\* TranslationCache.clear().
clear ==
  /\ mainPc = "idle"
  /\ cache' = <<>>
  /\ stats' = NoStats
  /\ last' = Op("clear", running, <<>>)
  /\ order' = <<>>
  /\ probe' = NoProbe
  /\ UNCHANGED <<running, thread, workerState, settings, app_settings, shared, capture, prev_frame, threshold, ocr_lang, loaded, max_size, last_blocks, null_frame_count, queue, overlay, mainPc, upd, overtaken, history, errors, call, newborn, backend>>

CacheKeys == {Key(text, "eng_Latn", tgt) : text \in {"a", "b"}, tgt \in TgtLangs}
CacheVals == {AsString("x"), AsString("y")}

\* The settings update_settings is called with: every capacity from 1 on.
CapDom == {AppSettings("fullscreen", NoRegion, 0, "auto", "fra_Latn", DefaultThreshold, cap) : cap \in 1..MaxCache}

InitCache == InitWith(Settings0, {"stats"})

NextCache ==
  \/ get(CacheKeys)
  \/ put(CacheKeys, CacheVals)
  \/ clear
  \/ update_settings(CapDom)

SpecCache == InitCache /\ [][NextCache]_vars

---------------------------------------------------------------------------
(* Properties of the session life cycle (Spec). *)

InCycle(w) == pc[w] \in {"grab", "ocr", "translate"}
Pubs(w) == SelectSeq(log[w], LAMBDA e : e.ev = "pub")
HasEvent(w, name) == \E i \in 1..Len(log[w]) : log[w][i].ev = name

\* C1: at most one worker thread is executing a cycle of the loop at any
\* time, whatever the sequence of start(), stop() and shutdown() calls.
C1_SingleWorker == \A v, w \in Workers : (InCycle(v) /\ InCycle(w)) => v = w

\* C2: stop() can be called whatever the worker is doing (it waits for
\* nothing), and a stop() of a running session leaves is_running false,
\* emits the empty block set, which the consumer then shows, and leaves
\* every worker where it was.
C2_StopImmediate ==
  /\ [](mainPc = "idle" => ENABLED stop)
  /\ [][(stop /\ running) => (~running' /\ overlay' = <<>> /\ last'.calls[1] = "blocks_ready" /\ pc' = pc)]_vars

\* C2 witness: a stop() of a running session has returned while a cycle is
\* still in flight.
C2_Witness == last.op = "stop" /\ last.was_running /\ ~running /\ overlay = <<>> /\ \E w \in Workers : pc[w] = "translate"

\* C6: no publication is observed by the consumer before a publication that
\* was produced earlier: at every delivery, nothing produced earlier is still
\* undelivered.
C6_InOrder == overtaken = 0

\* C3 (as claimed): in every cycle that detects a change an empty block set
\* is published before OCR, so a real-block publication of the cycle is
\* immediately preceded by an empty one of the same cycle.
C3_AlwaysClears ==
  \A w \in Workers : (log[w] # <<>> /\ log[w][1].ev = "changed") =>
     /\ HasEvent(w, "ocr") => (Len(log[w]) >= 2 /\ log[w][2] = Ev("pub", <<>>, <<>>))
     /\ \A i \in 1..Len(Pubs(w)) : Pubs(w)[i].blocks # <<>> => (i > 1 /\ Pubs(w)[i - 1].blocks = <<>>)

\* C3 (amended): in a cycle that detects a change, the empty block set is
\* published before OCR exactly when the last-published set was non-empty;
\* a real-block publication is then immediately preceded by that empty one,
\* and is the cycle's only publication otherwise.
C3_ClearsWhenStale ==
  \A w \in Workers : (log[w] # <<>> /\ log[w][1].ev = "changed") =>
     LET stale == log[w][1].blocks # <<>>
         rest == SubSeq(log[w], 2, Len(log[w]))
         work == IF stale THEN SubSeq(rest, 2, Len(rest)) ELSE rest
     IN /\ stale => (rest # <<>> /\ rest[1] = Ev("pub", <<>>, <<>>))
        /\ work # <<>> => work[1].ev = "ocr"
        /\ \A i \in 1..Len(work) : work[i].ev = "pub" => i = Len(work)
        /\ \A i \in 1..Len(Pubs(w)) : Pubs(w)[i].blocks # <<>> => (IF stale THEN i = 2 /\ Pubs(w)[1].blocks = <<>> ELSE i = 1)

\* C3 witness: a cycle cleared a stale overlay and then published real blocks.
C3_Witness == \E w \in Workers : Len(Pubs(w)) = 2 /\ log[w][1].ev = "changed" /\ log[w][1].blocks # <<>> /\ Pubs(w)[1].blocks = <<>> /\ Pubs(w)[2].blocks # <<>>

\* C5 (as claimed): a cycle whose frame is unchanged republishes the last
\* published block set, whatever it is, and does nothing else.
C5_AlwaysRepublishes ==
  \A w \in Workers : (log[w] # <<>> /\ log[w][1].ev = "unchanged") =>
     log[w] = <<log[w][1], Ev("pub", log[w][1].blocks, <<>>)>>

\* C5 (amended): a cycle whose frame is unchanged republishes the last
\* published block set when it is non-empty, publishes nothing when it is
\* empty, and invokes neither OCR nor translation.
C5_RepublishesNonEmpty ==
  \A w \in Workers : (log[w] # <<>> /\ log[w][1].ev = "unchanged") =>
     /\ pc[w] = "loop"
     /\ log[w] = IF log[w][1].blocks # <<>> THEN <<log[w][1], Ev("pub", log[w][1].blocks, <<>>)>> ELSE <<log[w][1]>>

\* C5 witness: an unchanged frame republished a non-empty block set.
C5_Witness == \E w \in Workers : Len(log[w]) = 2 /\ log[w][1].ev = "unchanged" /\ log[w][2].ev = "pub" /\ log[w][2].blocks # <<>>

---------------------------------------------------------------------------
(* Properties of a recorded session (SpecScenario). *)

Repeat(x, n) == [i \in 1..n |-> x]

\* A fresh session captured FrameA StaticCycles times, then FrameB (which
\* differs from FrameA by more than the threshold), and the cycle is over.
ScenarioDone == frames = Repeat(FrameA, StaticCycles) \o <<FrameB>> /\ pc[1] \in {"loop", "dead"}

\* C4 (as claimed): over those cycles OCR is invoked exactly once, in the
\* cycle that captures FrameB.
C4_OcrOnce == ScenarioDone => ocr_at = {StaticCycles + 1}

\* C4 (amended): over those cycles OCR is invoked exactly twice: in the
\* first cycle (the first frame of a session is always reported as changed)
\* and in the cycle that captures FrameB.
C4_OcrTwice == ScenarioDone => ocr_at = {1, StaticCycles + 1}

\* C4 witness: the scenario has run to its end.
C4_Witness == ScenarioDone /\ ocr_at = {1, StaticCycles + 1}

---------------------------------------------------------------------------
(* Properties of settings changes (SpecSettings, SpecApp). *)

\* C7: every settings value a cycle reads comes from the settings that were
\* in effect when the cycle began: the language pair handed to translation
\* is the one of the settings the capture geometry was read from.
C7_OneSnapshot ==
  \A w \in Workers : pc[w] = "translate" =>
     /\ loc[w].src = effective_src(snap[w].src)
     /\ loc[w].tgt = snap[w].tgt

\* C8: a settings change that changes only target_language makes no capture
\* stop/start and no differ reset, and a cycle that begins after it hands
\* the new target language to the translation call.
C8_TargetOnly ==
  /\ [][ChangedFields(settings, settings') = {"target_language"} => (capture' = capture /\ prev_frame' = prev_frame)]_vars
  /\ [](\A w \in Workers : (fresh[w] /\ pc[w] = "translate") => loc[w].tgt = settings.target_language)

\* C8 witness: after a target-only change, a cycle that began after it is
\* inside the translation call with the new target language.
C8_Witness == upd = {"target_language"} /\ \E w \in Workers : fresh[w] /\ pc[w] = "translate" /\ loc[w].tgt = settings.target_language

\* C9: whenever a settings change changes the source language in effect,
\* the OCR engine is left configured for the language of the new setting.
C9_OcrFollowsSource == [][("source_language" \in ChangedFields(settings, settings')) => ocr_lang' = initial_ocr_lang(settings'.source_language)]_vars

\* C10: whenever a settings change changes the capture monitor or mode in
\* effect, capture is left started on the new monitor and the differ is
\* reset, so that the next frame is reported as changed.
C10_RestartOnCaptureChange ==
  [][(ChangedFields(settings, settings') \cap {"capture_monitor", "capture_mode"} # {}) =>
       (capture' = CaptureStarted(settings'.capture_monitor) /\ \A f \in {FrameA, FrameB} : has_changed(prev_frame', f, threshold'))]_vars

---------------------------------------------------------------------------
(* Properties of the cache (SpecCache). *)

\* The cached keys in the order of their last use (get-hit or put), oldest first.
ByLastUse == SelectSeq(order, LAMBDA k : cache_contains(cache, k))

\* The keys of the entries of c.
KeysOf(c) == {c[i].key : i \in 1..Len(c)}

\* C11: a put of a key that is not cached into a cache that holds as many
\* entries as its capacity evicts exactly one entry, the one whose last use
\* is the oldest, and keeps every other entry with its value.
C11_EvictsLRU ==
  [][\A key \in CacheKeys : (put({key}, CacheVals) /\ Len(cache) = max_size /\ ~cache_contains(cache, key)) =>
       /\ KeysOf(cache) \ KeysOf(cache') = {ByLastUse[1]}
       /\ KeysOf(cache') \ KeysOf(cache) = {key}
       /\ Len(cache') = max_size
       /\ \A k \in KeysOf(cache) \cap KeysOf(cache') : cache_get_value(cache', k) = cache_get_value(cache, k)]_vars

\* C11 witness: after a get-hit promoted a key, a put of a new key into the
\* full cache evicted another one.
C11_Witness == max_size > 1 /\ Len(cache) = max_size /\ probe.key # <<>> /\ probe.puts = 1 /\ \E i \in 1..Len(order) : ~cache_contains(cache, order[i])

\* C12 (as claimed): after a get that hits k, N other new keys put into a
\* cache of capacity N do not evict k.
C12_SurvivesN == (probe.key # <<>> /\ probe.puts <= max_size) => cache_contains(cache, probe.key)

\* C12 (amended): after a get that hits k, up to N - 1 other new keys put
\* into a cache of capacity N do not evict k: a get of k still hits.
C12_SurvivesNMinus1 == (probe.key # <<>> /\ probe.puts <= max_size - 1) => cache_get_value(cache, probe.key) # NoTranslation

\* C12 witness: k was hit, N - 1 new keys were put since and evicted other
\* entries, and k, now the oldest entry, is still cached.
C12_Witness == max_size > 1 /\ probe.key # <<>> /\ probe.puts = max_size - 1 /\ Len(cache) = max_size /\ cache[1].key = probe.key /\ \E i \in 1..Len(order) : ~cache_contains(cache, order[i])

\* C13: the cache never holds more entries than its current capacity.
C13_WithinCapacity == Len(cache) <= max_size

\* C14: clear() leaves the cache empty and both counters at 0, every get
\* then misses, and a key becomes cached (again) only by a put of that key.
C14_ClearForgets ==
  /\ [][clear => (Len(cache') = 0 /\ stats'.hits = 0 /\ stats'.misses = 0 /\ \A key \in CacheKeys : cache_get_value(cache', key) = NoTranslation)]_vars
  /\ [][\A key \in CacheKeys : (~cache_contains(cache, key) /\ cache_contains(cache', key)) => put({key}, CacheVals)]_vars

\* C14 witness: after a clear() of a cache that held entries and counts,
\* a get has missed and nothing has been put.
C14_Witness == last.op = "clear" /\ cache = <<>> /\ stats = [hits |-> 0, misses |-> 1]

---------------------------------------------------------------------------
(* Properties of the cache under the application's handlers (SpecApp). *)

\* C15: once a handler that switches the source or target language has
\* returned, every cache entry was written under the language pair that is
\* now in effect.
C15_NoStaleEntries == \A i \in 1..Len(cache) : cache[i].key[2] = effective_src(settings.source_language) /\ cache[i].key[3] = settings.target_language

\* C16: a step that moves no worker thread (an operation of the caller's
\* thread) leaves the cache, its capacity and the last-published blocks as
\* they were.
C16_WorkerOnlyWrites == [][(pc' = pc) => (cache' = cache /\ max_size' = max_size /\ last_blocks' = last_blocks)]_vars

---------------------------------------------------------------------------
(* Properties of failing collaborators (SpecFaults). *)

\* The i-th event of w's cycle records a failed OCR or translation call.
CallFailed(w, i) ==
  \/ log[w][i].ev = "ocr" /\ log[w][i].args = <<"raised">>
  \/ log[w][i].ev = "translate" /\ log[w][i].args[4] = "failed"

\* C17: every translation in the cache and in the last published blocks
\* comes from a successful translation call, never from the source text a
\* failed or unloaded translation engine hands back.
C17_OnlyRealTranslations ==
  /\ \A i \in 1..Len(cache) : cache[i].val = Translated(cache[i].key[1], cache[i].key[2], cache[i].key[3])
  /\ \A i \in 1..Len(last_blocks) : last_blocks[i].translation # AsString(last_blocks[i].text)

\* C18: in a cycle whose OCR or translation call fails, the failure is
\* reported on the error channel and nothing is published after it.
C18_FailureSurfaced ==
  \A w \in Workers : \A i \in 1..Len(log[w]) : CallFailed(w, i) =>
     /\ \A j \in (i + 1)..Len(log[w]) : log[w][j].ev # "pub"
     /\ pc[w] = "loop" => \E j \in (i + 1)..Len(log[w]) : log[w][j].ev = "error"

\* C19: an exception that escapes a cycle is caught and reported on the
\* error channel, the worker goes to the inter-cycle sleep, from which the
\* next loop test is always possible, and the worker of a running session
\* is never dead.
C19_WorkerSurvives ==
  /\ [][\A w \in Workers : cycle_raises(w) => (pc'[w] = "loop" /\ errors' = errors + 1 /\ running' = running)]_vars
  /\ [](\A w \in Workers : pc[w] = "loop" => ENABLED loop_check(w))
  /\ [](running => (thread # 0 /\ pc[thread] # "dead"))

\* C19 witness: after an exception was reported, the worker of the running
\* session is in a later cycle, inside the OCR call.
C19_Witness == errors > 0 /\ running /\ pc[thread] = "ocr"

\* C20: a cycle whose capture returns no frame ends at once: it publishes
\* nothing, leaves the differ's reference, the cache, its counters, the
\* last-published blocks and the error channel as they were, and adds one to
\* the failure counter; a cycle that captures a frame resets the counter.
C20_NullFrameNoEffect ==
  /\ [][\A w \in Workers : (pc[w] = "grab" /\ log'[w] = <<Ev("null", <<>>, <<>>)>>) =>
        /\ pc'[w] = "loop"
        /\ queue' = queue /\ overlay' = overlay /\ last_blocks' = last_blocks
        /\ prev_frame' = prev_frame /\ cache' = cache /\ stats' = stats /\ errors' = errors
        /\ null_frame_count' = Min(null_frame_count + 1, MaxNull)]_vars
  /\ [][\A w \in Workers : (pc[w] = "grab" /\ log'[w] # <<>> /\ log'[w][1].ev \in {"changed", "unchanged"}) => null_frame_count' = 0]_vars

\* C20 witness: with blocks published and a translation cached, capture
\* has failed twice in a row.
C20_Witness == null_frame_count = 2 /\ last_blocks # <<>> /\ cache # <<>> /\ prev_frame # NoFrame /\ \E w \in Workers : log[w] = <<Ev("null", <<>>, <<>>)>>

---------------------------------------------------------------------------
(* Properties of the translation batch (SpecBatch). *)

Distinct(seq) == \A i, j \in 1..Len(seq) : seq[i] = seq[j] => i = j
Increasing(seq) == \A i, j \in 1..Len(seq) : i < j => seq[i] < seq[j]
Range(seq) == {seq[i] : i \in 1..Len(seq)}
Calls(w) == SelectSeq(log[w], LAMBDA e : e.ev = "translate")

\* C21: the batch a cycle hands to the translation call holds each distinct
\* source text at most once, also when several blocks carry the same text.
C21_BatchDistinct == \A w \in Workers : pc[w] = "translate" => Distinct(to_translate(loc[w].blocks, loc[w].misses))

\* C30: a cycle calls translation at most once, and only when a block missed
\* the cache; the batch is the texts of the blocks that missed, in block
\* order; the i-th returned translation is assigned to the i-th of them, and
\* a block that hit carries the cached translation and is not sent.
C30_OneBatchPerCycle ==
  /\ [](\A w \in Workers : Len(Calls(w)) <= 1)
  /\ [][\A w \in Workers : (pc[w] = "ocr" /\ pc'[w] = "translate") =>
        LET b == loc'[w].blocks
            hit(i) == cache_contains(cache, Key(b[i].text, loc'[w].src, loc'[w].tgt))
        IN /\ loc'[w].misses # <<>>
           /\ Increasing(loc'[w].misses)
           /\ Range(loc'[w].misses) = {i \in 1..Len(b) : ~hit(i)}
           /\ \A i \in 1..Len(b) : b[i].translation = IF hit(i) THEN cache_get_value(cache, Key(b[i].text, loc'[w].src, loc'[w].tgt)) ELSE NoTranslation]_vars
  /\ [][\A w \in Workers : (pc[w] = "ocr" /\ pc'[w] = "loop" /\ last_blocks' # <<>>) =>
        /\ Calls(w)' = <<>>
        /\ \A i \in 1..Len(last_blocks') : /\ cache_contains(cache, Key(last_blocks'[i].text, effective_src(settings.source_language), settings.target_language))
                                            /\ last_blocks'[i].translation = cache_get_value(cache, Key(last_blocks'[i].text, effective_src(settings.source_language), settings.target_language))]_vars
  /\ [][\A w \in Workers : (pc[w] = "translate" /\ pc'[w] = "loop") =>
        LET b == loc[w].blocks
            m == loc[w].misses
            sent == Calls(w)'[1].args
            back == IF sent[4] = "ok" THEN [j \in 1..Len(sent[1]) |-> Translated(sent[1][j], sent[2], sent[3])] ELSE [j \in 1..Len(sent[1]) |-> AsString(sent[1][j])]
        IN /\ Len(Calls(w)') = 1
           /\ sent[1] = [j \in 1..Len(m) |-> b[m[j]].text]
           /\ Len(last_blocks') = Len(b)
           /\ \A j \in 1..Len(m) : last_blocks'[m[j]].translation = back[j]
           /\ \A i \in 1..Len(b) : i \notin Range(m) => last_blocks'[i] = b[i]]_vars

\* C30 witness: a cycle with one block that hit the cache and one that
\* missed has sent the second alone and published both, translated.
C30_Witness == \E w \in Workers : /\ pc[w] = "loop" /\ Len(Calls(w)) = 1 /\ Len(Calls(w)[1].args[1]) = 1
                                   /\ Len(last_blocks) = 2 /\ last_blocks[1].text # last_blocks[2].text
                                   /\ \A i \in 1..2 : last_blocks[i].translation # NoTranslation
                                   /\ Pubs(w) # <<>> /\ Pubs(w)[Len(Pubs(w))].blocks = last_blocks

---------------------------------------------------------------------------
(* Properties of start() (SpecFaults, SpecRestart). *)

\* C22: start() called while the session is running changes nothing: no
\* capture stop/start, no differ reset, no new thread, no reset of the
\* failure counter, and no worker is moved.
C22_StartWhileRunning ==
  [][(start(Workers) /\ running) =>
       /\ last'.calls = <<>>
       /\ UNCHANGED <<running, thread, pc, loc, capture, prev_frame, null_frame_count, last_blocks, queue, overlay, cache, settings>>]_vars

\* C22 witness: start() has returned in a running session that published
\* blocks and whose capture failed since, while its worker is capturing.
C22_Witness == last = Op("start", TRUE, <<>>) /\ running /\ null_frame_count > 0 /\ capture.started /\ prev_frame # NoFrame /\ last_blocks # <<>> /\ pc[thread] = "grab"

\* C23: a start() that enters Running has restarted capture on the current
\* monitor and reset the differ before it, and the first frame the worker
\* it starts compares is reported as changed.
C23_FirstFrameChanged ==
  /\ [][(start(Workers) /\ ~running) =>
        /\ running' /\ capture' = CaptureStarted(settings.capture_monitor) /\ prev_frame' = NoFrame
        /\ last'.calls = <<"capture.stop", "capture.start", "differ.reset", "thread.start", "status_update">>]_vars
  /\ [][\A w \in Workers : (w \in newborn /\ pc[w] = "grab" /\ w \notin newborn') => pc'[w] = "ocr"]_vars

StartFailed == last.op = "start" /\ last.calls # <<>> /\ last.calls[Len(last.calls)] = "raise"

\* C24: a start() that fails for want of a capture backend raises to its
\* caller before anything else is done: no thread is created, no worker is
\* moved and is_running stays false.
C24_FailedStartNotRunning ==
  /\ [][start_fails => (StartFailed' /\ ~running' /\ thread' = thread /\ pc' = pc /\ \A i \in 1..Len(last'.calls) : last'.calls[i] # "thread.start")]_vars
  /\ [](StartFailed => ~running)

\* C24 witness: after a session that ran and was stopped, a start() has
\* failed: capture is stopped and no session is running.
C24_Witness == StartFailed /\ ~running /\ ~capture.started /\ thread # 0 /\ pc[thread] = "dead" /\ prev_frame # NoFrame

---------------------------------------------------------------------------
(* Properties of the change detector (SpecDiffer). *)

Shape(frame) == <<Downsample(frame).h, Downsample(frame).w>>

\* C25: has_changed returns true and stores the given frame (downsampled)
\* as the reference whenever it has no comparable reference - none at all
\* (a fresh instance, or after reset()) or one of another downsampled
\* shape - whatever the frame's content and the threshold.
C25_NoReferenceIsChange ==
  [][\A f \in DifferFrames : (differ_has_changed({f}) /\ (prev_frame = NoFrame \/ Shape(f) # Shape(prev_frame))) =>
       (call'.result = TRUE /\ prev_frame' = Downsample(f))]_vars

\* C25 witness: a frame of another shape, but of the same grey level as the
\* reference and under the largest threshold, was reported as changed and
\* is the reference now (the wide frame downsampled).
C25_Witness ==
  /\ call.fn = "has_changed" /\ call.result = TRUE
  /\ call.args[2] # NoFrame /\ call.args[2].lum = call.args[1].lum /\ call.args[3] = 20
  /\ call.args[1].w > downsample_width /\ prev_frame = Frame(2, downsample_width, call.args[1].lum)

\* C26: has_changed called on a frame bit-identical to the frame of the
\* previous has_changed call, with no reset in between, returns false under
\* every threshold, also one changed between the two calls.
C26_IdenticalIsUnchanged ==
  [][\A f \in DifferFrames : (differ_has_changed({f}) /\ call.fn = "has_changed" /\ call.args[1] = f /\ prev_frame # NoFrame) =>
       (call'.result = FALSE /\ prev_frame' = prev_frame)]_vars

\* C26 witness: the same wide frame was given twice, and the second call,
\* under threshold 0, returned false.
C26_Witness == call.fn = "has_changed" /\ call.result = FALSE /\ call.args[2] = Downsample(call.args[1]) /\ call.args[3] = 0 /\ threshold = 0 /\ call.args[1].w > downsample_width

---------------------------------------------------------------------------
(* Properties of the paragraph merger (SpecMerge). *)

\* The merge condition in the words of the claim, on an accumulator and the next block.
Adjacent(acc, nxt) == 2 * (nxt.y - (acc.y + acc.height)) < 3 * acc.height /\ 10 * Abs(nxt.x - acc.x) < 3 * acc.width

\* The text and font size of each block of a list.
TextsOf(blocks) == [i \in 1..Len(blocks) |-> <<blocks[i].text, blocks[i].font_size>>]

\* C27: folding the y-sorted blocks, the next block is merged into the
\* accumulator exactly when gap < 1.5 * accumulator.height and
\* |next.x - accumulator.x| < 0.3 * accumulator.width; the merged text is
\* accumulator.text + " " + next.text with the accumulator's font size.
\* Stated on the last block of each list, the accumulator being what the
\* blocks before it were folded to.
C27_MergeCondition ==
  (call.fn = "merge" /\ Len(call.args) >= 2) =>
     LET in == SortByY(call.args)
         before == merge_paragraph_lines(SubSeq(in, 1, Len(in) - 1))
         acc == before[Len(before)]
         nxt == in[Len(in)]
     IN TextsOf(call.result) = TextsOf(SubSeq(before, 1, Len(before) - 1)) \o
          (IF Adjacent(acc, nxt) THEN << <<acc.text \o " " \o nxt.text, acc.font_size>> >> ELSE << <<acc.text, acc.font_size>>, <<nxt.text, nxt.font_size>> >>)

\* C27 witness: two lines were merged, and a third one, right below the
\* merged block (no vertical gap) but offset by more than 30% of its width,
\* was not.
C27_Witness == call.fn = "merge" /\ Len(call.args) = 3 /\ TextsOf(call.result) = << <<"a b", 8>>, <<"g", 15>> >> /\ call.result[1].height = 20

\* C28: the merger returns an empty list and a list of one block as they
\* are: same blocks, same geometry, text and font size.
C28_ShortListsUnchanged == (call.fn = "merge" /\ Len(call.args) <= 1) => call.result = call.args

\* C28 witness: the merger was given the single line "a".
C28_Witness == call.fn = "merge" /\ call.args = <<LineA>> /\ Len(call.result) = 1 /\ call.result[1] = LineA

---------------------------------------------------------------------------
(* Properties of style extraction (SpecStyle). *)

Colors(block) == <<block.fg_color, block.bg_color>>
Uncolored(block) == [block EXCEPT !.fg_color = Unset, !.bg_color = Unset]

\* C29: extract returns every block it was given, changed in its colors
\* at most; a block that is skipped (its ROI outside the frame, or an inner
\* ROI of fewer than 2 pixels) or whose sampling fails keeps both colors
\* unset, and every other block has both colors set, whatever happened to
\* the blocks before it.
C29_PerBlockIsolation ==
  call.fn = "extract" =>
     LET frame == call.args[1]
         blocks == call.args[2]
         failing == call.args[3]
     IN /\ Len(call.result) = Len(blocks)
        /\ \A i \in 1..Len(blocks) :
             /\ Uncolored(call.result[i]) = blocks[i]
             /\ IF roi_empty(frame, blocks[i]) \/ inner_pixels(frame, blocks[i]) < 2 \/ i \in failing
                THEN Colors(call.result[i]) = <<Unset, Unset>>
                ELSE call.result[i].fg_color # Unset /\ call.result[i].bg_color # Unset

\* C29 witness: of two blocks inside the frame, sampling failed for the
\* first, which is returned without colors, and the second was sampled.
C29_Witness == call.fn = "extract" /\ call.args[2] = <<BlockIn, BlockIn>> /\ call.args[3] = {1} /\ Colors(call.result[1]) = <<Unset, Unset>> /\ call.result[2].fg_color # Unset

---------------------------------------------------------------------------
(* Properties of the end of a cycle (SpecSmallCache, SpecFaults). *)

Translation(c, text, src, tgt) == cache_get_value(c, Key(text, src, tgt))

\* The texts the batch holds after position j, other than the j-th itself.
LaterTexts(texts, j) == {texts[k] : k \in (j + 1)..Len(texts)} \ {texts[j]}

\* C31 (as claimed): at the end of a cycle that publishes a non-empty set,
\* every published block has a translation, every text translated in the
\* cycle is in the cache under (text, effective source, target) with the
\* translation assigned to its block, and the set is the last-published.
C31_AllCached ==
  /\ [](\A i \in 1..Len(last_blocks) : last_blocks[i].translation # NoTranslation)
  /\ [][\A w \in Workers : (pc[w] = "translate" /\ pc'[w] = "loop") =>
        /\ last_blocks' # <<>> /\ queue'[Len(queue')] = last_blocks'
        /\ \A j \in 1..Len(loc[w].misses) : Translation(cache', loc[w].blocks[loc[w].misses[j]].text, loc[w].src, loc[w].tgt) = last_blocks'[loc[w].misses[j]].translation]_vars

\* C31 (amended): the same, but of the texts translated in the cycle those
\* are in the cache at its end that were followed in the batch by fewer
\* other texts than the cache's capacity.
C31_LastCached ==
  /\ [](\A i \in 1..Len(last_blocks) : last_blocks[i].translation # NoTranslation)
  /\ [][\A w \in Workers : (pc[w] = "translate" /\ pc'[w] = "loop") =>
        LET texts == to_translate(loc[w].blocks, loc[w].misses) IN
        /\ last_blocks' # <<>> /\ queue'[Len(queue')] = last_blocks'
        /\ \A j \in 1..Len(texts) : Cardinality(LaterTexts(texts, j)) < max_size =>
              Translation(cache', texts[j], loc[w].src, loc[w].tgt) = last_blocks'[loc[w].misses[j]].translation
        /\ \A j \in 1..Len(texts) : Cardinality(LaterTexts(texts, j)) >= max_size =>
              ~cache_contains(cache', Key(texts[j], loc[w].src, loc[w].tgt))]_vars

\* C31 witness: a cycle translated two different texts against a cache of
\* capacity 1 and published both blocks; the second text alone is cached.
C31_Witness ==
  \E w \in Workers : /\ pc[w] = "loop" /\ Len(Calls(w)) = 1 /\ Len(Calls(w)[1].args[1]) = 2
                     /\ Len(last_blocks) = 2 /\ last_blocks[1].text # last_blocks[2].text
                     /\ Len(cache) = 1 /\ cache[1].key[1] = last_blocks[2].text /\ cache[1].val = last_blocks[2].translation

\* C32: when OCR returns no blocks for a changed frame, the cycle publishes
\* the empty set, leaves the last-published blocks empty and ends, without
\* style extraction, a cache lookup or a translation call.
C32_EmptyOcrEndsCycle ==
  [][\A w \in Workers : (pc[w] = "ocr" /\ log'[w] # <<>> /\ log'[w][Len(log'[w])] = Ev("pub", <<>>, <<>>) /\ log'[w][Len(log'[w]) - 1] = Ev("ocr", <<>>, <<>>)) =>
       /\ pc'[w] = "loop"
       /\ queue' = Append(queue, <<>>) /\ last_blocks' = <<>>
       /\ cache' = cache /\ stats' = stats
       /\ ~HasEvent(w, "style")' /\ ~HasEvent(w, "translate")']_vars
  /\ [][\A w \in Workers : (pc[w] = "ocr" /\ pc'[w] # "ocr" /\ ~HasEvent(w, "error")' /\ ~HasEvent(w, "style")') => (log'[w][Len(log'[w])] = Ev("pub", <<>>, <<>>) /\ last_blocks' = <<>>)]_vars

\* C32 witness: a changed frame cleared the stale overlay, OCR found no
\* blocks in it, and the cycle ended with a second empty publication.
C32_Witness == \E w \in Workers : pc[w] = "loop" /\ Len(log[w]) = 4 /\ log[w][1].ev = "changed" /\ log[w][1].blocks # <<>> /\ SubSeq(log[w], 2, 4) = <<Ev("pub", <<>>, <<>>), Ev("ocr", <<>>, <<>>), Ev("pub", <<>>, <<>>)>> /\ last_blocks = <<>> /\ cache # <<>>

---------------------------------------------------------------------------
(* Further properties of the paragraph merger (SpecMergeBox, SpecMerge). *)

\* A block's box as <<left, top, right, bottom>>, and the smallest box that
\* contains two boxes.
Box(b) == <<b.x, b.y, b.x + b.width, b.y + b.height>>
Union(p, q) == <<Min(p[1], q[1]), Min(p[2], q[2]), Max(p[3], q[3]), Max(p[4], q[4])>>

\* C33: whenever the merger merges the next block into the accumulator, the
\* bounding box of the result is the union of the two boxes - the smallest
\* box that contains both.  Stated on the last block of each list.
C33_BoxIsUnion ==
  (call.fn = "merge" /\ Len(call.args) >= 2) =>
     LET in == SortByY(call.args)
         before == merge_paragraph_lines(SubSeq(in, 1, Len(in) - 1))
         acc == before[Len(before)]
         nxt == in[Len(in)]
     IN Len(call.result) = Len(before) => Box(call.result[Len(call.result)]) = Union(Box(acc), Box(nxt))

RECURSIVE JoinTexts(_)
JoinTexts(blocks) == IF blocks = <<>> THEN "" ELSE IF Len(blocks) = 1 THEN blocks[1].text ELSE blocks[1].text \o " " \o JoinTexts(Tail(blocks))

YSorted(blocks) == \A i, j \in 1..Len(blocks) : i < j => blocks[i].y <= blocks[j].y

\* C39: the merger neither drops nor duplicates text: the output has at
\* most as many blocks as the input, and its texts, read in order and
\* joined by single spaces, are the input texts in ascending order of y
\* (lines of equal y in input order), each once.
C39_TextPreserved ==
  call.fn = "merge" =>
     /\ Len(call.result) <= Len(call.args)
     /\ \E perm \in [1..Len(call.args) -> 1..Len(call.args)] :
          /\ \A i, j \in 1..Len(call.args) : i < j => (perm[i] # perm[j] /\ call.args[perm[i]].y <= call.args[perm[j]].y /\ (call.args[perm[i]].y = call.args[perm[j]].y => perm[i] < perm[j]))
          /\ JoinTexts(call.result) = JoinTexts([i \in 1..Len(call.args) |-> call.args[perm[i]]])

\* C39 witness: of three lines given out of perm, the upper two were
\* merged, and the output reads them from top to bottom.
C39_Witness == call.fn = "merge" /\ Len(call.args) = 3 /\ ~YSorted(call.args) /\ Len(call.result) = 2 /\ JoinTexts(call.result) = "a b g"

---------------------------------------------------------------------------
(* Further properties of the change detector (SpecDiffer). *)

\* C34: after every has_changed call, whatever it returns, the reference is
\* the downsampled frame of that call; so a frame that differs from the
\* frame of the previous call by at most the threshold is reported as
\* unchanged, however far it is from the frame that began the run.
C34_SlidingReference ==
  /\ [][\A f \in DifferFrames : differ_has_changed({f}) => prev_frame' = Downsample(f)]_vars
  /\ [][\A f \in DifferFrames : (differ_has_changed({f}) /\ call.fn = "has_changed" /\ prev_frame # NoFrame /\ Shape(f) = Shape(call.args[1]) /\ Abs(f.lum - call.args[1].lum) <= threshold) => call'.result = FALSE]_vars

\* C34 witness: a frame was reported as unchanged that differs from the
\* frame that began the run of unchanged frames by more than the threshold.
C34_Witness == call.fn = "has_changed" /\ call.result = FALSE /\ call.args[3] = DefaultThreshold /\ Abs(call.args[1].lum - call.args[4].lum) > call.args[3] /\ prev_frame = Downsample(call.args[1])

---------------------------------------------------------------------------
(* Termination of the worker (SpecStop). *)

AllExited == \A w \in Workers : pc[w] = "dead"

\* C36: stop() and shutdown() can be called whenever the caller's thread is
\* not itself inside shutdown's join, whatever the worker is doing; while
\* the running flag is clear (stop was called and start not yet again) no
\* worker begins a cycle - a worker inside a cycle only completes it - and,
\* unless start() is called again, every worker eventually exits its loop.
C36_StopAnytime ==
  /\ [](mainPc = "idle" => (ENABLED stop /\ ENABLED shutdown))
  /\ [][~running => \A w \in Workers : (pc[w] \in {"loop", "dead"} => pc'[w] \in {"loop", "dead"}) /\ (pc[w] = "loop" /\ pc'[w] # pc[w] => pc'[w] = "dead")]_vars
  /\ (~running ~> (running \/ AllExited))

\* C36 witness: stop() was called while a cycle was in flight - the cycle
\* published after stop's own emission, with nothing delivered since - and
\* the worker has exited.
C36_Witness == ~running /\ last.op = "stop" /\ last.was_running /\ AllExited /\ overtaken = 0 /\ queue # <<>> /\ overlay = <<>>

---------------------------------------------------------------------------
(* The consumer after stop() (Spec). *)

\* C38: once stop() has returned and until start() is called again, no
\* non-empty block set is delivered to the consumer, and when every worker
\* has exited and nothing is queued the consumer's block set is empty.
C38_NothingAfterStop ==
  /\ [][(~running /\ deliver) => overlay' = <<>>]_vars
  /\ []((~running /\ AllExited /\ queue = <<>>) => overlay = <<>>)

---------------------------------------------------------------------------
(* The last-published blocks (SpecFaults). *)

LastPub(w) == Pubs(w)[Len(Pubs(w))].blocks

\* C40: the last-published-blocks value is empty until the worker publishes,
\* every publication by the worker leaves it equal to the published
\* payload, and nothing else changes it - so at the end of every cycle,
\* whether the cycle published, skipped or raised, it equals the payload of
\* the worker's most recent publication.
C40_LastBlocksIsLastPublication ==
  /\ [](last.op = "init" /\ (\A w \in Workers : pc[w] = "dead") => last_blocks = <<>>)
  /\ [](\A w \in Workers : (pc[w] = "loop" /\ Pubs(w) # <<>>) => last_blocks = LastPub(w))
  /\ [][\A w \in Workers : Len(Pubs(w)') > Len(Pubs(w)) => last_blocks' = LastPub(w)']_vars
  /\ [][last_blocks' # last_blocks => \E w \in Workers : Len(Pubs(w)') > Len(Pubs(w))]_vars

\* C40 witness: a cycle cleared the stale blocks and then raised; at its end
\* the last-published blocks are the empty set it published.
C40_Witness == \E w \in Workers : pc[w] = "loop" /\ Len(log[w]) = 3 /\ log[w][1].ev = "changed" /\ log[w][1].blocks # <<>> /\ log[w][2] = Ev("pub", <<>>, <<>>) /\ log[w][3].ev = "error" /\ last_blocks = <<>>

---------------------------------------------------------------------------
(* Published coordinates (SpecGeometry). *)

\* C37: in every capture mode a published block's position is its position
\* inside the captured frame plus the origin of the screen area the frame
\* covers; in window mode with a resolvable window that area is the window's
\* rectangle.
C37_PositionFollowsCapturedArea ==
  call.fn = "geometry" =>
     /\ call.result.pos = <<call.args[4][1] + call.result.area[1], call.args[4][2] + call.result.area[2]>>
     /\ (call.args[1] = "window" /\ call.args[3] # NoRegion) => call.result.area = call.args[3]

---------------------------------------------------------------------------
(* The capture backend's threads (SpecCapture). *)

\* C35: every capture-backend instance is created, used and released on one
\* thread: none is created on the caller's thread by start() or
\* update_settings(), none is left behind unreleased by a thread that ends,
\* and once capture is stopped no worker's instance is still open.
C35_BackendOnOneThread ==
  /\ backend.camera = "none"
  /\ \A w \in Workers : backend.mss[w] # "dropped"
  /\ ~capture.started => \A w \in Workers : backend.mss[w] # "open"

====
